---- MODULE Spec2Model ----
(***************************************************************************)
(* A model of the Wikilon runtime core (wikilon-runtime/wikrt.c, wikrt.h): *)
(* the tagged value words, the per-context arena with its free lists, and  *)
(* the primitive value operations built on them.                           *)
(*                                                                         *)
(* A 32-bit word is the pair <<up, lo>> of its upper 24 bits and its low   *)
(* byte (word = 256*up + lo), so that every word of the program, object    *)
(* tags with bits 30 and 31 set included, is representable with the        *)
(* model checker's integers.                                               *)
(***************************************************************************)
EXTENDS Integers, Sequences, FiniteSets, TLC

VARIABLES
    cx,     \* the context: [mem, fl, shm, ba, bf] (arena words, local free
            \* list, shared free list, ct_bytes_alloc, ct_bytes_freed)
    regs,   \* the value words the caller holds
    res,    \* what the last operation returned
    hist    \* the caller's own record of what it did (per specification)

vars == <<cx, regs, res, hist>>

----------------------------------------------------------------------------
(* Bounds of the model *)

NCells == 40        \* cells of the arena after the reserved cell at address 0
MaxWrap == 13       \* most sum directions the caller stacks on one value
MaxSeals == 2       \* most seals the caller stacks on one value
MaxBuild == 3       \* most construction steps before a copy or a drop
MaxBuf == 30        \* most characters of the buffer the caller passes to peek_istr

----------------------------------------------------------------------------
(* Program constants *)

WIKRT_CELLSIZE == 8
WIKRT_PAGESIZE == 2 ^ 14
WIKRT_FLCT_QF == 16
WIKRT_FLCT_FF == 10
WIKRT_O == 1
WIKRT_P == 3
WIKRT_PL == 5
WIKRT_PR == 7
WIKRT_OTAG_BIGINT == 78
WIKRT_OTAG_DEEPSUM == 83
WIKRT_OTAG_BLOCK == 91
WIKRT_OTAG_OPVAL == 39
WIKRT_OTAG_SEAL == 36
WIKRT_OTAG_SEAL_SM == 58
WIKRT_OTAG_ARRAY == 86
WIKRT_OTAG_STOWAGE == 64
WIKRT_DEEPSUMR == 3
WIKRT_DEEPSUML == 2
WIKRT_BIGINT_DIGIT == 1000000000

Pow2_8 == 2 ^ 8
Pow2_16 == 2 ^ 16
Pow2_22 == 2 ^ 22
Pow2_23 == 2 ^ 23
Pow2_24 == 2 ^ 24

WIKRT_FLCT == WIKRT_FLCT_QF + WIKRT_FLCT_FF
WIKRT_QFSIZE == WIKRT_FLCT_QF * WIKRT_CELLSIZE
WIKRT_SMALLINT_MAX == (2 ^ 30) - 1
WIKRT_SMALLINT_MIN == 0 - WIKRT_SMALLINT_MAX

----------------------------------------------------------------------------
(* Words *)

Word(up, lo) == <<up, lo>>
WordOfNat(n) == <<n \div Pow2_8, n % Pow2_8>>       \* 0 <= n < 2^31
LOBYTE(w) == w[2]
Data24(w) == w[1]                                  \* w >> 8
ZeroWord == <<0, 0>>

\* a | b on naturals whose bits the model checker can hold
RECURSIVE BitOr(_, _)
BitOr(a, b) ==
    IF a = 0 THEN b
    ELSE IF b = 0 THEN a
    ELSE (IF (a % 2 = 1) \/ (b % 2 = 1) THEN 1 ELSE 0)
         + 2 * BitOr(a \div 2, b \div 2)

\* Addresses at and beyond 2^30 lie far outside the modelled arena; they are
\* all represented by FarAddr.
FarAddr == 2 ^ 30

wikrt_vtag(v) == v[2] % 8
wikrt_vaddr(v) ==
    IF v[1] >= Pow2_22 THEN FarAddr ELSE (v[1] * Pow2_8) + (v[2] - (v[2] % 8))
wikrt_tag_addr(t, a) == <<a \div Pow2_8, (a % Pow2_8) + t>>

WIKRT_VOID == Word(0, WIKRT_O)
WIKRT_UNIT == Word(0, WIKRT_P)
WIKRT_UNIT_INL == Word(0, WIKRT_PL)
WIKRT_UNIT_INR == Word(0, WIKRT_PR)

\* n << 1 in 32 bits, for -2^30 <= n < 2^30
wikrt_i2v(n) ==
    LET m == 2 * n
        lo == m % Pow2_8
    IN  <<((m - lo) \div Pow2_8) % Pow2_24, lo>>
\* ((int32_t)v) >> 1
wikrt_v2i(v) ==
    IF v[1] < Pow2_23 THEN ((v[1] * Pow2_8) + v[2]) \div 2
    ELSE (((v[1] - Pow2_24) * Pow2_8) + v[2]) \div 2
wikrt_i(v) == (v[2] % 2) = 0

wikrt_otag_bigint(w) == LOBYTE(w) = WIKRT_OTAG_BIGINT
wikrt_otag_deepsum(w) == LOBYTE(w) = WIKRT_OTAG_DEEPSUM
wikrt_otag_block(w) == LOBYTE(w) = WIKRT_OTAG_BLOCK
wikrt_otag_seal(w) == LOBYTE(w) = WIKRT_OTAG_SEAL
wikrt_otag_seal_sm(w) == LOBYTE(w) = WIKRT_OTAG_SEAL_SM
wikrt_otag_array(w) == LOBYTE(w) = WIKRT_OTAG_ARRAY

wikrt_copy_shallow(v) == wikrt_i(v) \/ (wikrt_vaddr(v) = 0)

\* The one member of a singleton.  A result that is used more than once is
\* bound as the member x of the singleton of its value: {e(x) : x \in {v}}
\* is {e(v)}.
The(S) == CHOOSE x \in S : TRUE

Min(a, b) == IF a <= b THEN a ELSE b

----------------------------------------------------------------------------
(* The arena *)

MemWords == 2 * (NCells + 1)
ArenaEnd == WIKRT_CELLSIZE * (NCells + 1)     \* first address past the arena

\* the words [addr, addr + 4*n) lie in the arena
InArena(addr, n) == (addr >= 0) /\ (addr % 4 = 0) /\ (addr + (4 * n) <= ArenaEnd)

\* wikrt_pval(cx, addr)[i]
Rd(c, addr, i) == c.mem[(addr \div 4) + i]
Wr(c, addr, i, w) == [c EXCEPT !.mem[(addr \div 4) + i] = w]

WIKRT_CELLBUFF(sz) == ((sz + (WIKRT_CELLSIZE - 1)) \div WIKRT_CELLSIZE) * WIKRT_CELLSIZE
WIKRT_PAGEBUFF(sz) == ((sz + (WIKRT_PAGESIZE - 1)) \div WIKRT_PAGESIZE) * WIKRT_PAGESIZE

----------------------------------------------------------------------------
(* Free lists.  A free list is the sequence of its blocks <<addr, size>>,  *)
(* most recently freed first; the list of one size class is the            *)
(* subsequence of the blocks of that class.                                *)

RECURSIVE FFClass(_, _)
FFClass(sz, k) ==
    IF (k >= WIKRT_FLCT_FF - 1) \/ (sz <= WIKRT_QFSIZE * (2 * (2 ^ k))) THEN k
    ELSE FFClass(sz, k + 1)

wikrt_size_class(sz) ==
    IF sz <= WIKRT_QFSIZE THEN (sz - 1) \div WIKRT_CELLSIZE
    ELSE WIKRT_FLCT_QF + FFClass(sz, 0)

RemoveAt(s, i) == SubSeq(s, 1, i - 1) \o SubSeq(s, i + 1, Len(s))

wikrt_fl_free(fl, sz, addr) == <<<<addr, sz>>>> \o fl

\* the block of a quick-fit list of exactly sz bytes, most recently freed
\* first (0 if there is none)
QuickFit(fl, sz) ==
    The({ IF qf = {} THEN 0 ELSE CHOOSE i \in qf : \A j \in qf : i <= j :
          qf \in {{i \in 1..Len(fl) : (sz <= WIKRT_QFSIZE) /\ (fl[i][2] = sz)}} })

\* the first block of at least sz bytes of the first-fit lists, smallest
\* class first (0 if there is none)
FirstFit(fl, sz) ==
    The({ The({ IF ff = {} THEN 0
                ELSE CHOOSE i \in ff : \A j \in ff :
                       \/ cls[i] < cls[j]
                       \/ (cls[i] = cls[j]) /\ (i <= j) :
                ff \in {{i \in 1..Len(fl) :
                           (cls[i] >= WIKRT_FLCT_QF) /\ (fl[i][2] >= sz)}} }) :
          cls \in {[i \in 1..Len(fl) |-> wikrt_size_class(fl[i][2])]} })

\* take the block at index i of fl, returning what it has beyond sz bytes
TakeBlock(fl, sz, i) ==
    [ok |-> TRUE, addr |-> fl[i][1],
     fl |-> IF fl[i][2] > sz
            THEN wikrt_fl_free(RemoveAt(fl, i), fl[i][2] - sz, fl[i][1] + sz)
            ELSE RemoveAt(fl, i)]

wikrt_fl_alloc(fl, sz) ==
    The({ IF p[1] # 0 THEN TakeBlock(fl, sz, p[1])
          ELSE IF p[2] # 0 THEN TakeBlock(fl, sz, p[2])
          ELSE [ok |-> FALSE, addr |-> 0, fl |-> fl] :
          p \in {<<QuickFit(fl, sz), FirstFit(fl, sz)>>} })

wikrt_fl_merge(src, dst) == dst \o src

\* sort by address and merge adjacent runs
RECURSIVE SortedBlocks(_)
SortedBlocks(S) ==
    IF S = {} THEN <<>>
    ELSE LET b == CHOOSE x \in S : \A y \in S : x[1] <= y[1]
         IN  <<b>> \o SortedBlocks(S \ {b})

RECURSIVE MergeRuns(_)
MergeRuns(s) ==
    IF Len(s) < 2 THEN s
    ELSE IF s[1][1] + s[1][2] = s[2][1]
         THEN MergeRuns(<<<<s[1][1], s[1][2] + s[2][2]>>>> \o SubSeq(s, 3, Len(s)))
         ELSE <<s[1]>> \o MergeRuns(Tail(s))

wikrt_fl_coalesce(fl) == MergeRuns(SortedBlocks({fl[i] : i \in 1..Len(fl)}))

----------------------------------------------------------------------------
(* Allocation API *)

\* a list that gives sz bytes and keeps them
AllocFrom_mut(c, from, sz) ==
    The({ IF ~r.ok THEN [ok |-> FALSE, addr |-> 0, cx |-> c]
          ELSE IF from = "fl"
          THEN [ok |-> TRUE, addr |-> r.addr, cx |-> [c EXCEPT !.ba = @ + sz]]
          ELSE [ok |-> TRUE, addr |-> r.addr,
                cx |-> [c EXCEPT !.fl = wikrt_fl_free(c.fl, sz, r.addr)]] :
          r \in {wikrt_fl_alloc(c[from], sz)} })

\* the list named by from ("fl" or "shm") gives sz bytes, or nothing
AllocFrom(c, from, sz) ==
    The({ IF ~r.ok THEN [ok |-> FALSE, addr |-> 0, cx |-> c]
          ELSE IF from = "fl"
          THEN [ok |-> TRUE, addr |-> r.addr,
                cx |-> [c EXCEPT !.fl = r.fl, !.ba = @ + sz]]
          ELSE [ok |-> TRUE, addr |-> r.addr,
                cx |-> [c EXCEPT !.shm = r.fl,
                                 !.fl = wikrt_fl_free(c.fl, sz, r.addr)]] :
          r \in {wikrt_fl_alloc(c[from], sz)} })

wikrt_alloc_local(c, sz) == AllocFrom(c, "fl", sz)

wikrt_acquire_shm(c, sz) == AllocFrom(c, "shm", sz)

\* the failed attempt a1 is retried once all free space is merged into
\* the shared lists and coalesced
wikrt_acquire_shared_memory(c, sz) ==
    The({ IF a1.ok THEN a1.cx
          ELSE The({ IF a2.ok THEN a2.cx
                     ELSE [a2.cx EXCEPT !.fl = wikrt_fl_merge(a2.cx.shm, a2.cx.fl),
                                        !.shm = <<>>] :
                     a2 \in {wikrt_acquire_shm(
                                [c EXCEPT
                                   !.shm = wikrt_fl_coalesce(wikrt_fl_merge(c.fl, c.shm)),
                                   !.fl = <<>>], sz)} }) :
          a1 \in {wikrt_acquire_shm(c, sz)} })

wikrt_alloc(c, sz0) ==
    The({ IF r1.ok THEN r1
          ELSE wikrt_alloc_local(
                   wikrt_acquire_shared_memory(c, WIKRT_PAGEBUFF(WIKRT_CELLBUFF(sz0))),
                   WIKRT_CELLBUFF(sz0)) :
          r1 \in {wikrt_alloc_local(c, WIKRT_CELLBUFF(sz0))} })

\* a free that returns the block to the shared list
wikrt_free_mut(c, sz0, addr) ==
    LET sz == WIKRT_CELLBUFF(sz0)
    IN  [c EXCEPT !.shm = wikrt_fl_free(c.shm, sz, addr), !.bf = @ + sz]

wikrt_free(c, sz0, addr) ==
    LET sz == WIKRT_CELLBUFF(sz0)
    IN  [c EXCEPT !.fl = wikrt_fl_free(c.fl, sz, addr), !.bf = @ + sz]

\* Allocate a cell value tagged with WIKRT_O, WIKRT_P, WIKRT_PL or WIKRT_PR
wikrt_alloc_cellval(c, tag, v0, v1) ==
    The({ IF ~r.ok THEN [ok |-> FALSE, v |-> WIKRT_VOID, cx |-> r.cx]
          ELSE [ok |-> TRUE, v |-> wikrt_tag_addr(tag, r.addr),
                cx |-> Wr(Wr(r.cx, r.addr, 0, v0), r.addr, 1, v1)] :
          r \in {wikrt_alloc(c, WIKRT_CELLSIZE)} })

\* memcpy of n bytes (whole words) from src to dst, two blocks that share no
\* word
MemcpyWords(c, dst, src, n) ==
    [c EXCEPT !.mem = [w \in DOMAIN @ |->
                         IF (dst \div 4 <= w) /\ (w < (dst + n) \div 4)
                         THEN @[(w - (dst \div 4)) + (src \div 4)] ELSE @[w]]]

\* a realloc that leaves the new block as it found it
wikrt_realloc_mut(c, sz0, addr, szf) ==
    IF WIKRT_CELLBUFF(sz0) = WIKRT_CELLBUFF(szf) THEN [ok |-> TRUE, addr |-> addr, cx |-> c]
    ELSE IF WIKRT_CELLBUFF(szf) < WIKRT_CELLBUFF(sz0) THEN
        [ok |-> TRUE, addr |-> addr,
         cx |-> wikrt_free(c, WIKRT_CELLBUFF(sz0) - WIKRT_CELLBUFF(szf),
                           addr + WIKRT_CELLBUFF(szf))]
    ELSE The({ IF ~r.ok THEN [ok |-> FALSE, addr |-> addr, cx |-> r.cx]
               ELSE [ok |-> TRUE, addr |-> r.addr,
                     cx |-> wikrt_free(r.cx, WIKRT_CELLBUFF(sz0), addr)] :
               r \in {wikrt_alloc(c, WIKRT_CELLBUFF(szf))} })

\* the result is [ok, addr, cx], addr being *addr after the call
wikrt_realloc(c, sz0, addr, szf) ==
    IF WIKRT_CELLBUFF(sz0) = WIKRT_CELLBUFF(szf) THEN [ok |-> TRUE, addr |-> addr, cx |-> c]
    ELSE IF WIKRT_CELLBUFF(szf) < WIKRT_CELLBUFF(sz0) THEN
        [ok |-> TRUE, addr |-> addr,
         cx |-> wikrt_free(c, WIKRT_CELLBUFF(sz0) - WIKRT_CELLBUFF(szf),
                           addr + WIKRT_CELLBUFF(szf))]
    ELSE The({ IF ~r.ok THEN [ok |-> FALSE, addr |-> addr, cx |-> r.cx]
               ELSE [ok |-> TRUE, addr |-> r.addr,
                     cx |-> wikrt_free(MemcpyWords(r.cx, r.addr, addr,
                                                   WIKRT_CELLBUFF(sz0)),
                                       WIKRT_CELLBUFF(sz0), addr)] :
               r \in {wikrt_alloc(c, WIKRT_CELLBUFF(szf))} })

EmptyCx ==
    [mem |-> [i \in 0..(MemWords - 1) |-> ZeroWord],
     fl  |-> <<<<WIKRT_CELLSIZE, WIKRT_CELLSIZE * NCells>>>>,
     shm |-> <<>>,
     ba  |-> 0,
     bf  |-> 0]

----------------------------------------------------------------------------
(* Error codes *)

WIKRT_OK == "OK"
WIKRT_INVAL == "INVAL"
WIKRT_IMPL == "IMPL"
WIKRT_TYPE_ERROR == "TYPE_ERROR"
WIKRT_CXFULL == "CXFULL"
WIKRT_BUFFSZ == "BUFFSZ"

----------------------------------------------------------------------------
(* Products and sums.  Every operation returns the error code, the words    *)
(* it stored through its output pointers (set says whether it stored        *)
(* any), and the context after it.                                          *)

\* the cell allocation r as the result of an operation: CXFULL if it
\* failed, storing void if the operation clears its output first
CellResult(r, clears) ==
    IF ~r.ok THEN [err |-> WIKRT_CXFULL, set |-> clears, v |-> WIKRT_VOID, cx |-> r.cx]
    ELSE [err |-> WIKRT_OK, set |-> TRUE, v |-> r.v, cx |-> r.cx]

\* a product that counts the cell it did not get
_wikrt_alloc_prod_mut(c, fst, snd) ==
    The({ IF r.err = WIKRT_OK THEN r ELSE [r EXCEPT !.cx.ba = @ + WIKRT_CELLSIZE] :
          r \in {CellResult(wikrt_alloc_cellval(c, WIKRT_P, fst, snd), TRUE)} })

_wikrt_alloc_prod(c, fst, snd) ==
    CellResult(wikrt_alloc_cellval(c, WIKRT_P, fst, snd), TRUE)

_wikrt_split_prod(c, p) ==
    IF (wikrt_vtag(p) = WIKRT_P) /\ (wikrt_vaddr(p) # 0)
    THEN [err |-> WIKRT_OK, fst |-> Rd(c, wikrt_vaddr(p), 0), snd |-> Rd(c, wikrt_vaddr(p), 1),
          cx |-> wikrt_free(c, WIKRT_CELLSIZE, wikrt_vaddr(p))]
    ELSE [err |-> WIKRT_TYPE_ERROR, fst |-> WIKRT_VOID, snd |-> WIKRT_VOID, cx |-> c]

DeepsumHasSpace_mut(otag) == TRUE
DeepsumHasSpace(otag) == Data24(otag) < Pow2_22      \* (*pv) < (1 << 30)

\* a wrap that takes a fresh cell for every direction around an object
_wikrt_alloc_sum_mut(c, inRight, v) ==
    IF wikrt_vtag(v) = WIKRT_P THEN
        [err |-> WIKRT_OK, set |-> TRUE, cx |-> c,
         v |-> wikrt_tag_addr(IF inRight THEN WIKRT_PR ELSE WIKRT_PL, wikrt_vaddr(v))]
    ELSE
        CellResult(wikrt_alloc_cellval(c, WIKRT_O,
                       Word(IF inRight THEN WIKRT_DEEPSUMR ELSE WIKRT_DEEPSUML,
                            WIKRT_OTAG_DEEPSUM), v),
                   FALSE)

_wikrt_alloc_sum(c, inRight, v) ==
    LET vtag == wikrt_vtag(v)
        vaddr == wikrt_vaddr(v)
        dir == IF inRight THEN WIKRT_DEEPSUMR ELSE WIKRT_DEEPSUML
    IN  IF vtag = WIKRT_P THEN
            [err |-> WIKRT_OK, set |-> TRUE, cx |-> c,
             v |-> wikrt_tag_addr(IF inRight THEN WIKRT_PR ELSE WIKRT_PL, vaddr)]
        ELSE IF /\ vtag = WIKRT_O
                /\ wikrt_otag_deepsum(Rd(c, vaddr, 0))
                /\ DeepsumHasSpace(Rd(c, vaddr, 0)) THEN
            LET s0 == Data24(Rd(c, vaddr, 0))
                sf == BitOr(s0 * 4, dir)
                otag == Word(sf % Pow2_24, WIKRT_OTAG_DEEPSUM)
            IN  [err |-> WIKRT_OK, set |-> TRUE, v |-> v, cx |-> Wr(c, vaddr, 0, otag)]
        ELSE
            CellResult(wikrt_alloc_cellval(c, WIKRT_O, Word(dir, WIKRT_OTAG_DEEPSUM), v),
                       FALSE)

\* a split that takes every reference for a pair in the left
_wikrt_split_sum_mut(c, v) ==
    [err |-> WIKRT_OK, inRight |-> FALSE, v |-> wikrt_tag_addr(WIKRT_P, wikrt_vaddr(v)),
     cx |-> c]

_wikrt_split_sum(c, v) ==
    LET tag == wikrt_vtag(v)
        addr == wikrt_vaddr(v)
        fail == [err |-> WIKRT_TYPE_ERROR, inRight |-> FALSE, v |-> WIKRT_VOID, cx |-> c]
    IN  IF tag = WIKRT_PL THEN
            [err |-> WIKRT_OK, inRight |-> FALSE, v |-> wikrt_tag_addr(WIKRT_P, addr), cx |-> c]
        ELSE IF tag = WIKRT_PR THEN
            [err |-> WIKRT_OK, inRight |-> TRUE, v |-> wikrt_tag_addr(WIKRT_P, addr), cx |-> c]
        ELSE IF tag = WIKRT_O THEN
            LET otag == Rd(c, addr, 0)
            IN  IF wikrt_otag_deepsum(otag) THEN
                    LET s0 == Data24(otag)
                        sf == s0 \div 4
                    IN  IF sf = 0
                        THEN [err |-> WIKRT_OK, inRight |-> ((s0 % 4) = 3),
                              v |-> Rd(c, addr, 1),
                              cx |-> wikrt_free(c, WIKRT_CELLSIZE, addr)]
                        ELSE [err |-> WIKRT_OK, inRight |-> ((s0 % 4) = 3), v |-> v,
                              cx |-> Wr(c, addr, 0, Word(sf, WIKRT_OTAG_DEEPSUM))]
                ELSE IF wikrt_otag_array(otag) THEN
                    [err |-> WIKRT_IMPL, inRight |-> FALSE, v |-> WIKRT_VOID, cx |-> c]
                ELSE fail
        ELSE fail

----------------------------------------------------------------------------
(* Bytes in words (little-endian) *)

WordBytes(w) == <<w[2], w[1] % Pow2_8, (w[1] \div Pow2_8) % Pow2_8, w[1] \div Pow2_16>>
BytesWord(b) == <<b[2] + (Pow2_8 * b[3]) + (Pow2_16 * b[4]), b[1]>>

\* memcpy(wikrt_pval(cx, addr), bytes, Len(bytes)), addr word-aligned: a
\* partly covered last word keeps its other bytes
RECURSIVE MemcpyIn(_, _, _)
MemcpyIn(c, addr, bytes) ==
    IF bytes = <<>> THEN c
    ELSE LET old == WordBytes(Rd(c, addr, 0))
             new == [k \in 1..4 |-> IF k <= Len(bytes) THEN bytes[k] ELSE old[k]]
             rest == IF Len(bytes) > 4 THEN SubSeq(bytes, 5, Len(bytes)) ELSE <<>>
         IN  MemcpyIn(Wr(c, addr, 0, BytesWord(new)), addr + 4, rest)

\* the n bytes at addr
RECURSIVE MemBytes(_, _, _)
MemBytes(c, addr, n) ==
    IF n <= 0 THEN <<>>
    ELSE SubSeq(WordBytes(Rd(c, addr, 0)), 1, IF n < 4 THEN n ELSE 4)
         \o MemBytes(c, addr + 4, n - 4)

\* the C string held by a buffer: its bytes before the first NUL
RECURSIVE CStr(_)
CStr(buff) ==
    IF (buff = <<>>) \/ (buff[1] = 0) THEN <<>> ELSE <<buff[1]>> \o CStr(Tail(buff))

----------------------------------------------------------------------------
(* Integers of up to three big digits *)

\* (((nDigits << 1) | (positive ? 0 : 1)) << 8) | WIKRT_OTAG_BIGINT
wikrt_mkotag_bigint_mut(positive, nDigits) ==
    Word(nDigits * 2, WIKRT_OTAG_BIGINT)
wikrt_mkotag_bigint(positive, nDigits) ==
    Word(BitOr(nDigits * 2, IF positive THEN 0 ELSE 1), WIKRT_OTAG_BIGINT)

\* the words ws stored at addr, addr + 4, ...
RECURSIVE WrWords(_, _, _)
WrWords(c, addr, ws) ==
    IF ws = <<>> THEN c ELSE WrWords(Wr(c, addr, 0, ws[1]), addr + 4, Tail(ws))

wikrt_alloc_medint(c, positive, d0, d1, d2) ==
    The({ IF ~r.ok THEN [err |-> WIKRT_CXFULL, set |-> FALSE, v |-> WIKRT_VOID, cx |-> r.cx]
          ELSE [err |-> WIKRT_OK, set |-> TRUE,
                v |-> wikrt_tag_addr(WIKRT_O, r.addr),
                cx |-> WrWords(r.cx, r.addr,
                               <<wikrt_mkotag_bigint(positive, IF d2 = 0 THEN 2 ELSE 3),
                                 WordOfNat(d0), WordOfNat(d1)>>
                               \o (IF d2 = 0 THEN <<>> ELSE <<WordOfNat(d2)>>))] :
          r \in {wikrt_alloc(c, 4 + ((IF d2 = 0 THEN 2 ELSE 3) * 4))} })

----------------------------------------------------------------------------
(* Sealed values.  A token is the sequence of its bytes.  Plain char is     *)
(* signed on some builds and unsigned on others; signedChar says which.     *)

\* (wikrt_val)s[N]: the char converted to a 32-bit unsigned word
CharToVal(b, signedChar) ==
    IF signedChar /\ (b >= 128) THEN Word(Pow2_24 - 1, b) ELSE Word(0, b)

\* w << (8*n) in 32 bits
RECURSIVE ShlBytes(_, _)
ShlBytes(w, n) ==
    IF n = 0 THEN w
    ELSE ShlBytes(Word(((w[1] % Pow2_16) * Pow2_8) + w[2], 0), n - 1)

WordOr(a, b) == Word(BitOr(a[1], b[1]), BitOr(a[2], b[2]))

\* #define TAG(N) ((len > N) ? (((wikrt_val)s[N]) << (8*N)) : 0)
SealTAG(s, n, signedChar) ==
    IF Len(s) > n THEN ShlBytes(CharToVal(s[n + 1], signedChar), n) ELSE ZeroWord

_wikrt_alloc_seal(c, s, v, signedChar) ==
    LET len == Len(s)
    IN  IF ~((0 < len) /\ (len < 64)) THEN
            [err |-> WIKRT_INVAL, set |-> TRUE, v |-> WIKRT_VOID, cx |-> c]
        ELSE IF (s[1] = 58) /\ (len <= 4) THEN
            CellResult(
                wikrt_alloc_cellval(c, WIKRT_O,
                    WordOr(WordOr(SealTAG(s, 3, signedChar), SealTAG(s, 2, signedChar)),
                           WordOr(SealTAG(s, 1, signedChar), Word(0, WIKRT_OTAG_SEAL_SM))),
                    v),
                FALSE)
        ELSE
            The({ IF ~r.ok
                  THEN [err |-> WIKRT_CXFULL, set |-> TRUE, v |-> WIKRT_VOID, cx |-> r.cx]
                  ELSE [err |-> WIKRT_OK, set |-> TRUE,
                        v |-> wikrt_tag_addr(WIKRT_O, r.addr),
                        cx |-> MemcpyIn(WrWords(r.cx, r.addr,
                                                <<Word(len, WIKRT_OTAG_SEAL), v>>),
                                        r.addr + WIKRT_CELLSIZE, s)] :
                  r \in {wikrt_alloc(c, WIKRT_CELLSIZE + len)} })

\* a split that gives nothing back to the free lists
_wikrt_split_seal_mut(c, sv) ==
    [err |-> WIKRT_OK, buff |-> <<0>>, v |-> Rd(c, wikrt_vaddr(sv), 1), cx |-> c]
_wikrt_split_seal(c, sv) ==
    LET addr == wikrt_vaddr(sv)
        tag == wikrt_vtag(sv)
        fail == [err |-> WIKRT_TYPE_ERROR, buff |-> <<0>>, v |-> WIKRT_VOID, cx |-> c]
    IN  IF (tag # WIKRT_O) \/ (addr = 0) THEN fail
        ELSE LET otag == Rd(c, addr, 0)
             IN  IF wikrt_otag_seal_sm(otag) THEN
                     [err |-> WIKRT_OK,
                      buff |-> <<58, WordBytes(otag)[2], WordBytes(otag)[3],
                                 WordBytes(otag)[4], 0>>,
                      v |-> Rd(c, addr, 1),
                      cx |-> wikrt_free(c, WIKRT_CELLSIZE, addr)]
                 ELSE IF wikrt_otag_seal(otag) THEN
                     LET len == Data24(otag) % 64
                     IN  [err |-> WIKRT_OK,
                          buff |-> MemBytes(c, addr + WIKRT_CELLSIZE, len) \o <<0>>,
                          v |-> Rd(c, addr, 1),
                          cx |-> wikrt_free(c, WIKRT_CELLSIZE + len, addr)]
                 ELSE fail

\* the n words at addr hold data of the program: they lie in the arena and
\* in no free block (the words of a free block hold what the free lists
\* keep there)
IsFree(c, addr) ==
    \/ \E i \in 1..Len(c.fl) : (c.fl[i][1] <= addr) /\ (addr < c.fl[i][1] + c.fl[i][2])
    \/ \E i \in 1..Len(c.shm) : (c.shm[i][1] <= addr) /\ (addr < c.shm[i][1] + c.shm[i][2])
Live(c, addr, n) == InArena(addr, n) /\ ~IsFree(c, addr)

NatOfWord(w) == IF w[1] >= Pow2_22 THEN FarAddr ELSE (w[1] * Pow2_8) + w[2]

----------------------------------------------------------------------------
(* Integers.  An int32_t is an integer.  An int64_t does not fit the        *)
(* integers of the checker: it is written I64(neg, d0, d1, d2), its sign    *)
(* and the magnitude d0 + d1 * 10^9 + d2 * 10^18 (zero is not negative), so *)
(* n % WIKRT_BIGINT_DIGIT and n / WIKRT_BIGINT_DIGIT take and drop d0.      *)

INT32_MAX == 2147483647
INT32_MIN == (0 - INT32_MAX) - 1

I64(neg, d0, d1, d2) == [neg |-> neg, m |-> <<d0, d1, d2>>]
INT64_MAX == I64(FALSE, 854775807, 223372036, 9)
INT64_MIN == I64(TRUE, 854775808, 223372036, 9)

\* (int64_t) n for an int32_t n
I64OfInt32_mut(n) ==
    LET a == IF n < 0 THEN 0 - n ELSE n
    IN  I64(FALSE, a % WIKRT_BIGINT_DIGIT, a \div WIKRT_BIGINT_DIGIT, 0)
I64OfInt32(n) ==
    IF n = INT32_MIN THEN I64(TRUE, 147483648, 2, 0)
    ELSE LET a == IF n < 0 THEN 0 - n ELSE n
         IN  I64(n < 0, a % WIKRT_BIGINT_DIGIT, a \div WIKRT_BIGINT_DIGIT, 0)

\* (WIKRT_SMALLINT_MIN <= n) && (n <= WIKRT_SMALLINT_MAX) for an int64_t n
I64IsSmall(n) ==
    /\ n.m[3] = 0
    /\ n.m[2] <= WIKRT_SMALLINT_MAX \div WIKRT_BIGINT_DIGIT
    /\ (n.m[2] * WIKRT_BIGINT_DIGIT) + n.m[1] <= WIKRT_SMALLINT_MAX

\* (int32_t) n for an int64_t n in the small range
Int32OfI64(n) ==
    LET a == (n.m[2] * WIKRT_BIGINT_DIGIT) + n.m[1]
    IN  IF n.neg THEN 0 - a ELSE a

\* digit ii of the bignum at addr: ((uint32_t*)(pv + 1))[ii]
BigDigit(c, addr, ii) == NatOfWord(Rd(c, addr, 1 + ii))

wikrt_peek_medint_mut(c, v) ==
    LET addr == wikrt_vaddr(v)
        otag == Rd(c, addr, 0)
        nDigits == Data24(otag) \div 2
    IN  IF (addr # 0) /\ (wikrt_vtag(v) = WIKRT_O) /\ wikrt_otag_bigint(otag)
        THEN [err |-> WIKRT_OK, positive |-> (Data24(otag) % 2) = 0,
              d0 |-> BigDigit(c, addr, 0), d1 |-> BigDigit(c, addr, 1),
              d2 |-> IF nDigits > 2 THEN BigDigit(c, addr, 2) ELSE 0]
        ELSE [err |-> WIKRT_TYPE_ERROR, positive |-> FALSE, d0 |-> 0, d1 |-> 0, d2 |-> 0]

wikrt_peek_medint(c, v) ==
    IF wikrt_i(v) THEN
        LET n == wikrt_v2i(v)
            positive == n >= 0
            a == IF positive THEN n ELSE 0 - n
        IN  [err |-> WIKRT_OK, positive |-> positive, d0 |-> a % WIKRT_BIGINT_DIGIT,
             d1 |-> a \div WIKRT_BIGINT_DIGIT, d2 |-> 0]
    ELSE
        LET tag == wikrt_vtag(v)
            addr == wikrt_vaddr(v)
            otag == Rd(c, addr, 0)
            isBigInt == (addr # 0) /\ (tag = WIKRT_O) /\ wikrt_otag_bigint(otag)
            nDigits == Data24(otag) \div 2
        IN  IF ~isBigInt THEN
                [err |-> WIKRT_TYPE_ERROR, positive |-> FALSE, d0 |-> 0, d1 |-> 0, d2 |-> 0]
            ELSE [err |-> IF nDigits > 3 THEN WIKRT_BUFFSZ ELSE WIKRT_OK,
                  positive |-> (Data24(otag) % 2) = 0,
                  d0 |-> BigDigit(c, addr, 0), d1 |-> BigDigit(c, addr, 1),
                  d2 |-> IF nDigits > 2 THEN BigDigit(c, addr, 2) ELSE 0]

_wikrt_alloc_i32(c, n) ==
    IF (WIKRT_SMALLINT_MIN <= n) /\ (n <= WIKRT_SMALLINT_MAX) THEN
        [err |-> WIKRT_OK, set |-> TRUE, v |-> wikrt_i2v(n), cx |-> c]
    ELSE IF n # INT32_MIN THEN
        LET positive == n >= 0
            a == IF positive THEN n ELSE 0 - n
        IN  wikrt_alloc_medint(c, positive, a % WIKRT_BIGINT_DIGIT,
                               a \div WIKRT_BIGINT_DIGIT, 0)
    ELSE wikrt_alloc_medint(c, FALSE, 147483648, 2, 0)

_wikrt_alloc_i64(c, n) ==
    IF I64IsSmall(n) THEN
        [err |-> WIKRT_OK, set |-> TRUE, v |-> wikrt_i2v(Int32OfI64(n)), cx |-> c]
    ELSE IF n # INT64_MIN THEN
        wikrt_alloc_medint(c, ~n.neg, n.m[1], n.m[2], n.m[3])
    ELSE wikrt_alloc_medint(c, FALSE, 854775808, 223372036, 9)

_wikrt_peek_i32(c, v) ==
    IF wikrt_i(v) THEN [err |-> WIKRT_OK, i32 |-> wikrt_v2i(v)]
    ELSE
        The({ LET d1m == 2
                  overflow == \/ p.d2 # 0
                              \/ p.d1 > d1m
                              \/ (p.d1 = d1m) /\ (p.d0 > 147483647)
                  underflow == \/ p.d2 # 0
                               \/ p.d1 > d1m
                               \/ (p.d1 = d1m) /\ (p.d0 > 147483648)
              IN  IF p.err # WIKRT_OK THEN
                      [err |-> p.err, i32 |-> IF p.positive THEN INT32_MAX ELSE INT32_MIN]
                  ELSE IF p.positive THEN
                      (IF overflow THEN [err |-> WIKRT_BUFFSZ, i32 |-> INT32_MAX]
                       ELSE [err |-> WIKRT_OK, i32 |-> (p.d1 * WIKRT_BIGINT_DIGIT) + p.d0])
                  ELSE
                      (IF underflow THEN [err |-> WIKRT_BUFFSZ, i32 |-> INT32_MIN]
                       ELSE [err |-> WIKRT_OK,
                             i32 |-> (0 - (p.d1 * WIKRT_BIGINT_DIGIT)) - p.d0]) :
              p \in {wikrt_peek_medint(c, v)} })

_wikrt_peek_i64(c, v) ==
    IF wikrt_i(v) THEN [err |-> WIKRT_OK, i64 |-> I64OfInt32(wikrt_v2i(v))]
    ELSE
        The({ LET d2m == 9
                  d1m == 223372036
                  overflow == \/ p.d2 > d2m
                              \/ /\ p.d2 = d2m
                                 /\ (p.d1 > d1m) \/ ((p.d1 = d1m) /\ (p.d0 > 854775807))
                  underflow == \/ p.d2 > d2m
                               \/ /\ p.d2 = d2m
                                  /\ (p.d1 > d1m) \/ ((p.d1 = d1m) /\ (p.d0 > 854775808))
              IN  IF p.err # WIKRT_OK THEN
                      [err |-> p.err, i64 |-> IF p.positive THEN INT64_MAX ELSE INT64_MIN]
                  ELSE IF p.d2 = 0 THEN
                      [err |-> WIKRT_OK, i64 |-> I64(~p.positive, p.d0, p.d1, 0)]
                  ELSE IF p.positive THEN
                      (IF overflow THEN [err |-> WIKRT_BUFFSZ, i64 |-> INT64_MAX]
                       ELSE [err |-> WIKRT_OK, i64 |-> I64(FALSE, p.d0, p.d1, p.d2)])
                  ELSE
                      (IF underflow THEN [err |-> WIKRT_BUFFSZ, i64 |-> INT64_MIN]
                       ELSE [err |-> WIKRT_OK, i64 |-> I64(TRUE, p.d0, p.d1, p.d2)]) :
              p \in {wikrt_peek_medint(c, v)} })

RECURSIVE wikrt_decimal_size(_)
wikrt_decimal_size(n) == IF n \div 10 > 0 THEN 1 + wikrt_decimal_size(n \div 10) ELSE 1

\* the state of the writing loop of _wikrt_peek_istr is [buff, s, n]: the
\* buffer (its first character is buff[1]), the offset s and the number n

\* #define WD(n) { *(--s) = ('0' + (n % 10)); n /= 10; }
WD_mut(w) ==
    [buff |-> [w.buff EXCEPT ![w.s] = 48 + ((w.n + 1) % 10)], s |-> w.s - 1, n |-> w.n \div 10]
WD(w) ==
    [buff |-> [w.buff EXCEPT ![w.s] = 48 + (w.n % 10)], s |-> w.s - 1, n |-> w.n \div 10]

\* the nine WD of one inner digit
WD9(w) == WD(WD(WD(WD(WD(WD(WD(WD(WD(w)))))))))

RECURSIVE PeekIstrInner(_, _, _, _, _)
PeekIstrInner(c, addr, w, ii, innerDigitCt) ==
    IF ii < innerDigitCt
    THEN PeekIstrInner(c, addr, WD9([w EXCEPT !.n = BigDigit(c, addr, ii)]), ii + 1,
                       innerDigitCt)
    ELSE w

\* do { WD(upperDigit); } while(0 != upperDigit);
RECURSIVE PeekIstrUpper(_)
PeekIstrUpper(w) ==
    LET w1 == WD(w) IN IF w1.n # 0 THEN PeekIstrUpper(w1) ELSE w1

\* the caller's buffer buff holds buffsz characters
_wikrt_peek_istr(c, v, buff, buffsz) ==
    LET addr == wikrt_vaddr(v)
        otag == Rd(c, addr, 0)
        small == wikrt_i(v)
        isBigInt == (wikrt_vtag(v) = WIKRT_O) /\ (addr # 0) /\ wikrt_otag_bigint(otag)
        i == wikrt_v2i(v)
        positive == IF small THEN i >= 0 ELSE (Data24(otag) % 2) = 0
        innerDigitCt == IF small THEN 0 ELSE (Data24(otag) \div 2) - 1
        upperDigit == IF small THEN (IF positive THEN i ELSE 0 - i)
                      ELSE BigDigit(c, addr, innerDigitCt)
        buffsz_min == (IF positive THEN 0 ELSE 1) + wikrt_decimal_size(upperDigit)
                          + (9 * innerDigitCt)
        w1 == PeekIstrInner(c, addr, [buff |-> buff, s |-> buffsz_min, n |-> 0], 0,
                            innerDigitCt)
        w2 == PeekIstrUpper([w1 EXCEPT !.n = upperDigit])
        w3 == IF positive THEN w2 ELSE [w2 EXCEPT !.buff[w2.s] = 45, !.s = @ - 1]
    IN  IF ~small /\ ~isBigInt
        THEN [err |-> WIKRT_TYPE_ERROR, buff |-> buff, buffsz |-> buffsz]
        ELSE IF buffsz_min > buffsz
        THEN [err |-> WIKRT_BUFFSZ, buff |-> buff, buffsz |-> buffsz_min]
        ELSE [err |-> WIKRT_OK, buff |-> w3.buff, buffsz |-> buffsz_min]

_wikrt_alloc_istr(c, istr) ==
    [err |-> WIKRT_IMPL, set |-> TRUE, v |-> WIKRT_VOID, cx |-> c]

----------------------------------------------------------------------------
(* Deep copy.  The loop state k is [cx, out, dst, lcpy, err]: the context,  *)
(* the caller's output variable, the pointer dst (DstOut for the caller's   *)
(* variable, DstNull for NULL, else the address of an arena word), the      *)
(* work list, and the error ("" while running).  Besides the error codes    *)
(* of the program a copy can end with "HANG" (a loop that never ends) and   *)
(* "UB" (a read of words that hold no data of the program).                 *)

DstOut == 0 - 1
DstNull == 0 - 2

RdDst(k) == IF k.dst = DstOut THEN k.out ELSE Rd(k.cx, k.dst, 0)
WrDst(k, w) ==
    IF k.dst = DstOut THEN [k EXCEPT !.out = w] ELSE [k EXCEPT !.cx = Wr(k.cx, k.dst, 0, w)]

\* number of cells in the 'spine' of a list or stack: NCells + 1 when the
\* walk does not end, NCells + 2 when it leaves the data of the program
RECURSIVE wikrt_spine_length_from(_, _, _)
wikrt_spine_length_from(c, v, ct) ==
    CASE (wikrt_vtag(v) = WIKRT_O) \/ (wikrt_vaddr(v) = 0) -> ct
      [] ~Live(c, wikrt_vaddr(v), 2) -> NCells + 2
      [] ct >= NCells -> NCells + 1
      [] OTHER -> wikrt_spine_length_from(c, Rd(c, wikrt_vaddr(v), 1), ct + 1)

wikrt_spine_length(c, v) == wikrt_spine_length_from(c, v, 0)

wikrt_alloc_dcellval(c, v0, v1, v2, v3) ==
    The({ IF ~r.ok THEN [ok |-> FALSE, v |-> WIKRT_VOID, cx |-> r.cx]
          ELSE [ok |-> TRUE, v |-> wikrt_tag_addr(WIKRT_O, r.addr),
                cx |-> WrWords(r.cx, r.addr, <<v0, v1, v2, v3>>)] :
          r \in {wikrt_alloc(c, 2 * WIKRT_CELLSIZE)} })

wikrt_copy_step_next(k) ==
    LET addr == wikrt_vaddr(k.lcpy)
        tag == wikrt_vtag(k.lcpy)
    IN  IF addr = 0 THEN [k EXCEPT !.dst = DstNull]
        ELSE IF tag = WIKRT_PL THEN
            [k EXCEPT !.dst = NatOfWord(Rd(k.cx, addr, 0)),
                      !.lcpy = Rd(k.cx, addr, 1),
                      !.cx = wikrt_free(k.cx, WIKRT_CELLSIZE, addr)]
        ELSE IF tag = WIKRT_O THEN
            LET a == NatOfWord(Rd(k.cx, addr, 0))
                step == NatOfWord(Rd(k.cx, addr, 1))
                ct == NatOfWord(Rd(k.cx, addr, 2)) - 1
                c1 == Wr(Wr(k.cx, addr, 2, WordOfNat(ct)), addr, 0, WordOfNat(a + step))
            IN  IF ct = 0
                THEN [k EXCEPT !.dst = a, !.lcpy = Rd(k.cx, addr, 3),
                               !.cx = wikrt_free(c1, 2 * WIKRT_CELLSIZE, addr)]
                ELSE [k EXCEPT !.dst = a, !.cx = c1]
        ELSE [k EXCEPT !.err = "ABORT"]

wikrt_copy_add_task(c, lcpy, a) ==
    wikrt_alloc_cellval(c, WIKRT_PL, WordOfNat(a), lcpy)

wikrt_copy_add_arraytask(c, lcpy, a, step, ct) ==
    IF ct = 1 THEN wikrt_copy_add_task(c, lcpy, a)
    ELSE wikrt_alloc_dcellval(c, WordOfNat(a), WordOfNat(step), WordOfNat(ct), lcpy)

\* the for loop of the pair case: fills the spine cells but the last and
\* returns [cx, hd, intraSpine, ok]; ok is FALSE when hd leaves the arena
RECURSIVE CopyFillSpine(_, _, _, _)
CopyFillSpine(c, hd, intraSpine, ii) ==
    IF ~Live(c, hd, 2) THEN [cx |-> c, hd |-> hd, intraSpine |-> intraSpine, ok |-> FALSE]
    ELSE IF ii > 1 THEN
        LET next == intraSpine + WIKRT_CELLSIZE
            c1 == Wr(c, intraSpine, 0, Rd(c, hd, 0))
            c2 == Wr(c1, intraSpine, 1, wikrt_tag_addr(wikrt_vtag(Rd(c1, hd, 1)), next))
        IN  CopyFillSpine(c2, wikrt_vaddr(Rd(c2, hd, 1)), next, ii - 1)
    ELSE [cx |-> c, hd |-> hd, intraSpine |-> intraSpine, ok |-> TRUE]

\* the last cell of the spine, filled after the loop f, and dst at its
\* second word
CopySpineCells(k1, addr, spine, cellCt) ==
    The({ IF ~f.ok THEN [k1 EXCEPT !.cx = f.cx, !.err = "UB"]
          ELSE [k1 EXCEPT !.cx = Wr(Wr(f.cx, f.intraSpine, 0, Rd(f.cx, f.hd, 0)),
                                    f.intraSpine, 1, Rd(f.cx, f.hd, 1)),
                          !.dst = f.intraSpine + 4] :
          f \in {CopyFillSpine(k1.cx, addr, spine, cellCt)} })

\* the spine of cellCt cells: its allocation r, the task t added to the
\* work list, the reference stored through dst, and the cells
CopySpine(k, tag, addr, cellCt) ==
    The({ IF ~r.ok THEN [k EXCEPT !.cx = r.cx, !.err = WIKRT_CXFULL]
          ELSE The({ IF ~t.ok THEN [k EXCEPT !.cx = t.cx, !.err = WIKRT_CXFULL]
                     ELSE CopySpineCells(
                              WrDst([k EXCEPT !.cx = t.cx, !.lcpy = t.v],
                                    wikrt_tag_addr(tag, r.addr)),
                              addr, r.addr, cellCt) :
                     t \in {wikrt_copy_add_arraytask(r.cx, k.lcpy, r.addr,
                                                     WIKRT_CELLSIZE, cellCt)} }) :
          r \in {wikrt_alloc(k.cx, WIKRT_CELLSIZE * cellCt)} })

CopyPair(k, tag, addr) ==
    The({ IF len = NCells + 1 THEN [k EXCEPT !.err = "HANG"]
          ELSE IF len = NCells + 2 THEN [k EXCEPT !.err = "UB"]
          ELSE CopySpine(k, tag, addr, 1 + len) :
          len \in {wikrt_spine_length(k.cx, Rd(k.cx, addr, 1))} })

\* wikrt_alloc_cellval(cx, dst, WIKRT_O, pv[0], pv[1]) and dst = 1 + the new cell
CopyCell(k, addr) ==
    The({ IF ~r.ok THEN [k EXCEPT !.cx = r.cx, !.err = WIKRT_CXFULL]
          ELSE [WrDst([k EXCEPT !.cx = r.cx], wikrt_tag_addr(WIKRT_O, r.addr))
                  EXCEPT !.cx = Wr(Wr(@, r.addr, 0, Rd(k.cx, addr, 0)),
                                   r.addr, 1, Rd(k.cx, addr, 1)),
                         !.dst = r.addr + 4] :
          r \in {wikrt_alloc(k.cx, WIKRT_CELLSIZE)} })

\* allocate nbytes, memcpy them from addr, store the reference through dst
CopyBytes(k, addr, nbytes) ==
    IF ~Live(k.cx, addr, (nbytes + 3) \div 4) THEN [k EXCEPT !.err = "UB"]
    ELSE The({ IF ~r.ok THEN [k EXCEPT !.cx = r.cx, !.err = WIKRT_CXFULL]
               ELSE [WrDst([k EXCEPT !.cx = MemcpyIn(r.cx, r.addr,
                                                    MemBytes(r.cx, addr, nbytes))],
                           wikrt_tag_addr(WIKRT_O, r.addr))
                       EXCEPT !.dst = r.addr] :
               r \in {wikrt_alloc(k.cx, nbytes)} })

\* wikrt_copy_step_next after a step that did not fail
CopyStepNext(k1) == IF k1.err # "" THEN k1 ELSE wikrt_copy_step_next(k1)

wikrt_block_aff(w) == ((Data24(w) \div 2) % 2) = 1     \* WIKRT_BLOCK_AFFINE, 1 << 9
wikrt_block_rel_mut(w) == FALSE
wikrt_block_rel(w) == (Data24(w) % 2) = 1              \* WIKRT_BLOCK_RELEVANT, 1 << 8
OpvalLazy(w) == (Data24(w) % 2) = 1                    \* WIKRT_OPVAL_LAZYKF, 1 << 8

RECURSIVE CopyPasses(_, _, _)
RECURSIVE CopyLoopBy(_, _, _)
RECURSIVE CopyLoop(_, _)
RECURSIVE _wikrt_copy(_, _, _)

_wikrt_copy(c, origin, bCopyAff) ==
    The({ [err |-> k.err, v |-> k.out, cx |-> k.cx] :
          k \in {CopyLoop([cx |-> c, out |-> origin, dst |-> DstOut,
                           lcpy |-> WIKRT_UNIT_INR, err |-> ""], bCopyAff)} })

\* the copy of the value v0 under an opval that shields it, stored through dst
CopyShielded(k, v0) ==
    The({ CopyStepNext([WrDst([k EXCEPT !.cx = r.cx], r.v)
                          EXCEPT !.err = IF r.err = WIKRT_OK THEN "" ELSE r.err]) :
          r \in {_wikrt_copy(k.cx, v0, TRUE)} })

\* one pass of the do-while loop of _wikrt_copy
CopyPass(k, bCopyAff) ==
    LET v0 == RdDst(k)
        tag == wikrt_vtag(v0)
        addr == wikrt_vaddr(v0)
        otag == Rd(k.cx, addr, 0)
    IN  IF wikrt_copy_shallow(v0) THEN wikrt_copy_step_next(k)
        ELSE IF ~Live(k.cx, addr, 2) THEN [k EXCEPT !.err = "UB"]
        ELSE IF tag # WIKRT_O THEN CopyPair(k, tag, addr)
        ELSE IF wikrt_otag_seal_sm(otag) \/ wikrt_otag_deepsum(otag) THEN
            CopyCell(k, addr)
        ELSE IF wikrt_otag_block(otag) THEN
            (IF ~(~wikrt_block_aff(otag) \/ bCopyAff)
             THEN [k EXCEPT !.err = WIKRT_TYPE_ERROR]
             ELSE CopyCell(k, addr))
        ELSE IF LOBYTE(otag) = WIKRT_OTAG_OPVAL THEN
            (IF OpvalLazy(otag) \/ bCopyAff THEN CopyCell(k, addr)
             ELSE CopyShielded(k, v0))
        ELSE IF wikrt_otag_array(otag) THEN [k EXCEPT !.err = WIKRT_IMPL]
        ELSE IF wikrt_otag_bigint(otag) THEN
            CopyStepNext(CopyBytes(k, addr, 4 + ((Data24(otag) \div 2) * 4)))
        ELSE IF wikrt_otag_seal(otag) THEN
            The({ IF k1.err # "" THEN k1 ELSE [k1 EXCEPT !.dst = @ + 4] :
                  k1 \in {CopyBytes(k, addr, WIKRT_CELLSIZE + (Data24(otag) % 64))} })
        ELSE [k EXCEPT !.err = WIKRT_IMPL]

\* the first n passes of the loop, fewer when one of them ends it; they are
\* run as two halves, the second from where the first stopped
CopyPasses(k, bCopyAff, n) ==
    IF n = 1
    THEN The({ IF (k1.err = "") /\ (k1.dst = DstNull) THEN [k1 EXCEPT !.err = WIKRT_OK]
               ELSE k1 :
               k1 \in {CopyPass(k, bCopyAff)} })
    ELSE The({ IF k1.err # "" THEN k1 ELSE CopyPasses(k1, bCopyAff, n - (n \div 2)) :
               k1 \in {CopyPasses(k, bCopyAff, n \div 2)} })

\* the pass, and the passes after it: while (NULL != dst).  The passes are
\* run n at a time, twice as many each time, until one of them ends the loop.
CopyLoopBy(k, bCopyAff, n) ==
    The({ IF k1.err # "" THEN k1 ELSE CopyLoopBy(k1, bCopyAff, 2 * n) :
          k1 \in {CopyPasses(k, bCopyAff, n)} })

CopyLoop(k, bCopyAff) == CopyLoopBy(k, bCopyAff, 1)

----------------------------------------------------------------------------
(* Drop.  The loop state k is [cx, v, ldrop, err].                         *)

\* a step that takes the next value and keeps the cell
wikrt_drop_step_next_mut(k) ==
    LET tag == wikrt_vtag(k.ldrop)
        addr == wikrt_vaddr(k.ldrop)
    IN  IF addr = 0 THEN [k EXCEPT !.v = WIKRT_VOID]
        ELSE IF tag = WIKRT_PL THEN
            [k EXCEPT !.v = Rd(k.cx, addr, 0),
                      !.ldrop = Rd(k.cx, addr, 1)]
        ELSE [k EXCEPT !.err = "ABORT"]

wikrt_drop_step_next(k) ==
    LET tag == wikrt_vtag(k.ldrop)
        addr == wikrt_vaddr(k.ldrop)
    IN  IF addr = 0 THEN [k EXCEPT !.v = WIKRT_VOID]
        ELSE IF tag = WIKRT_PL THEN
            [k EXCEPT !.v = Rd(k.cx, addr, 0),
                      !.ldrop = Rd(k.cx, addr, 1),
                      !.cx = wikrt_free(k.cx, WIKRT_CELLSIZE, addr)]
        ELSE [k EXCEPT !.err = "ABORT"]

DropFuel == 4 * MemWords

RECURSIVE DropPasses(_, _, _)
RECURSIVE DropLoopBy(_, _, _, _)
RECURSIVE DropLoop(_, _, _)
RECURSIVE _wikrt_drop(_, _, _)

_wikrt_drop(c, v, bDropRel) ==
    The({ [err |-> k.err, cx |-> k.cx] :
          k \in {DropLoop([cx |-> c, v |-> v, ldrop |-> WIKRT_UNIT_INR, err |-> ""],
                          bDropRel, DropFuel)} })

\* v = pv[1]; wikrt_free(cx, sz, addr)
DropInner(k, addr, sz) ==
    [k EXCEPT !.v = Rd(k.cx, addr, 1), !.cx = wikrt_free(k.cx, sz, addr)]

\* the drop of the value under an opval that shields it
DropShielded(k) ==
    The({ IF r.err # WIKRT_OK THEN [k EXCEPT !.cx = r.cx, !.err = r.err]
          ELSE wikrt_drop_step_next([k EXCEPT !.cx = r.cx]) :
          r \in {_wikrt_drop(k.cx, k.v, TRUE)} })

\* one pass of the do-while loop of _wikrt_drop
DropPass(k, bDropRel) ==
    LET tag == wikrt_vtag(k.v)
        addr == wikrt_vaddr(k.v)
        otag == Rd(k.cx, addr, 0)
    IN  IF wikrt_copy_shallow(k.v) THEN
            (IF k.ldrop = WIKRT_UNIT_INR THEN [k EXCEPT !.err = WIKRT_OK]
             ELSE wikrt_drop_step_next(k))
        ELSE IF ~Live(k.cx, addr, 2) THEN [k EXCEPT !.err = "UB"]
        ELSE IF tag # WIKRT_O THEN
            [k EXCEPT !.v = Rd(k.cx, addr, 1),
                      !.cx = Wr(k.cx, addr, 1, k.ldrop),
                      !.ldrop = wikrt_tag_addr(WIKRT_PL, addr)]
        ELSE IF wikrt_otag_seal_sm(otag) \/ wikrt_otag_deepsum(otag) THEN
            DropInner(k, addr, WIKRT_CELLSIZE)
        ELSE IF wikrt_otag_block(otag) THEN
            (IF ~(~wikrt_block_rel(otag) \/ bDropRel)
             THEN [k EXCEPT !.err = WIKRT_TYPE_ERROR]
             ELSE DropInner(k, addr, WIKRT_CELLSIZE))
        ELSE IF LOBYTE(otag) = WIKRT_OTAG_OPVAL THEN
            (IF OpvalLazy(otag) \/ bDropRel THEN DropInner(k, addr, WIKRT_CELLSIZE)
             ELSE DropShielded(k))
        ELSE IF wikrt_otag_array(otag) THEN [k EXCEPT !.err = WIKRT_IMPL]
        ELSE IF wikrt_otag_bigint(otag) THEN
            wikrt_drop_step_next(
                [k EXCEPT !.cx = wikrt_free(k.cx, 4 + ((Data24(otag) \div 2) * 4), addr)])
        ELSE IF wikrt_otag_seal(otag) THEN
            DropInner(k, addr, WIKRT_CELLSIZE + (Data24(otag) % 64))
        ELSE [k EXCEPT !.err = WIKRT_IMPL]

\* the first n passes of the loop, fewer when one of them ends it; they are
\* run as two halves, the second from where the first stopped
DropPasses(k, bDropRel, n) ==
    IF n = 1 THEN DropPass(k, bDropRel)
    ELSE The({ IF k1.err # "" THEN k1 ELSE DropPasses(k1, bDropRel, n - (n \div 2)) :
               k1 \in {DropPasses(k, bDropRel, n \div 2)} })

\* the pass, and the passes after it, run n at a time, twice as many each
\* time; a loop that has not ended after fuel passes does not end
DropLoopBy(k, bDropRel, n, fuel) ==
    IF fuel = 0 THEN [k EXCEPT !.err = "HANG"]
    ELSE The({ IF k1.err # "" THEN k1
               ELSE DropLoopBy(k1, bDropRel, 2 * n, fuel - Min(n, fuel)) :
               k1 \in {DropPasses(k, bDropRel, Min(n, fuel))} })

DropLoop(k, bDropRel, fuel) == DropLoopBy(k, bDropRel, 1, fuel)

----------------------------------------------------------------------------
(* The value a word denotes in an arena, as a tree:                         *)
(*   <<"unit">>, <<"int", n>>, <<"big", positive, digits>>,                 *)
(*   <<"pair", a, b>>, <<"sum", inRight, a>>, <<"seal", token, a>>,         *)
(*   <<"block", header, ops>>, <<"opval", header, a>>,                      *)
(* and <<"junk">> for a word that denotes no value.                         *)

DecodeFuel == MemWords

RECURSIVE SumTree(_, _)
SumTree(s, inner) ==
    IF s = 0 THEN inner
    ELSE IF s % 4 < 2 THEN <<"junk">>
    ELSE <<"sum", (s % 4) = WIKRT_DEEPSUMR, SumTree(s \div 4, inner)>>

BigDigits(c, addr, n) == [k \in 1..n |-> (Rd(c, addr, k)[1] * Pow2_8) + Rd(c, addr, k)[2]]

RECURSIVE Decode(_, _, _)
Decode(c, v, fuel) ==
    IF fuel = 0 THEN <<"junk">>
    ELSE IF wikrt_i(v) THEN
        (IF (v[1] >= Pow2_22) /\ (v[1] < Pow2_24 - Pow2_22) THEN <<"junk">>
         ELSE <<"int", wikrt_v2i(v)>>)
    ELSE LET tag == wikrt_vtag(v)
             addr == wikrt_vaddr(v)
         IN  IF addr = 0 THEN
                 (IF tag = WIKRT_P THEN <<"unit">>
                  ELSE IF tag = WIKRT_O THEN <<"void">>
                  ELSE <<"sum", tag = WIKRT_PR, <<"unit">>>>)
             ELSE IF (addr = FarAddr) \/ ~InArena(addr, 2) THEN <<"junk">>
             ELSE IF tag # WIKRT_O THEN
                 LET pr == <<"pair", Decode(c, Rd(c, addr, 0), fuel - 1),
                                     Decode(c, Rd(c, addr, 1), fuel - 1)>>
                 IN  IF tag = WIKRT_P THEN pr ELSE <<"sum", tag = WIKRT_PR, pr>>
             ELSE LET otag == Rd(c, addr, 0)
                      inner == Decode(c, Rd(c, addr, 1), fuel - 1)
                  IN  IF wikrt_otag_deepsum(otag) THEN
                          (IF Data24(otag) = 0 THEN <<"junk">>
                           ELSE SumTree(Data24(otag), inner))
                      ELSE IF wikrt_otag_seal_sm(otag) THEN
                          <<"seal", CStr(<<58, WordBytes(otag)[2], WordBytes(otag)[3],
                                          WordBytes(otag)[4], 0>>), inner>>
                      ELSE IF wikrt_otag_seal(otag) THEN
                          (IF ~InArena(addr, 2 + (((Data24(otag) % 64) + 3) \div 4))
                           THEN <<"junk">>
                           ELSE <<"seal", MemBytes(c, addr + WIKRT_CELLSIZE,
                                                   Data24(otag) % 64), inner>>)
                      ELSE IF wikrt_otag_bigint(otag) THEN
                          (IF ~InArena(addr, 1 + (Data24(otag) \div 2)) THEN <<"junk">>
                           ELSE <<"big", (Data24(otag) % 2) = 0,
                                  BigDigits(c, addr, Data24(otag) \div 2)>>)
                      ELSE IF wikrt_otag_block(otag) THEN <<"block", otag, inner>>
                      ELSE IF LOBYTE(otag) = WIKRT_OTAG_OPVAL THEN <<"opval", otag, inner>>
                      ELSE <<"junk">>

----------------------------------------------------------------------------
(* Texts and binaries.  A buffer is a sequence of bytes 0..255.  The UTF-8  *)
(* reader and the character classes come from utf8.h.                       *)

\* utf8_step(&s, &len, &cp) on the bytes s still within the length: one
\* whole codepoint is read, or nothing when the sequence is cut or malformed
utf8_step(s) ==
    LET b0 == s[1]
        n == IF b0 < 128 THEN 1
             ELSE IF b0 \in 192..223 THEN 2
             ELSE IF b0 \in 224..239 THEN 3
             ELSE IF b0 \in 240..247 THEN 4
             ELSE 0
    IN  IF (n = 0) \/ (Len(s) < n) \/ (\E i \in 2..n : s[i] \notin 128..191)
        THEN [ok |-> FALSE, n |-> 0, cp |-> 0]
        ELSE [ok |-> TRUE, n |-> n,
              cp |-> CASE n = 1 -> b0
                       [] n = 2 -> ((b0 - 192) * 64) + (s[2] - 128)
                       [] n = 3 -> ((b0 - 224) * 4096) + ((s[2] - 128) * 64) + (s[3] - 128)
                       [] n = 4 -> ((b0 - 240) * 262144) + ((s[2] - 128) * 4096)
                                       + ((s[3] - 128) * 64) + (s[4] - 128)]

isControlChar(c) == (c <= 31) \/ (c = 127)
isReplacementChar(c) == c = 65533

wikrt_token_char_mut(c) == ~((c = 123) \/ (c = 125) \/ isReplacementChar(c))
wikrt_text_char_mut(c) == ~isReplacementChar(c)

wikrt_token_char(c) ==
    ~((c = 123) \/ (c = 125) \/ isControlChar(c) \/ isReplacementChar(c))

wikrt_text_char(c) ==
    ~((isControlChar(c) /\ (c # 10)) \/ isReplacementChar(c))

\* The list under construction: txt is the caller's variable, tl the address
\* of the word the next reference goes to (0 for the caller's variable).
ListStart(c) == [cx |-> c, txt |-> WIKRT_VOID, tl |-> 0, full |-> FALSE]

\* (*tl) = w
SetTl(k, w) ==
    IF k.tl = 0 THEN [k EXCEPT !.txt = w] ELSE [k EXCEPT !.cx = Wr(k.cx, k.tl, 0, w)]

\* wikrt_alloc_cellval(cx, tl, WIKRT_PL, wikrt_i2v(e), WIKRT_VOID);
\* tl = 1 + wikrt_pval(cx, wikrt_vaddr(*tl))
ListSnoc(k, e) ==
    The({ IF ~r.ok THEN [k EXCEPT !.cx = r.cx, !.full = TRUE]
          ELSE [SetTl([k EXCEPT !.cx = r.cx], r.v) EXCEPT !.tl = wikrt_vaddr(r.v) + 4] :
          r \in {wikrt_alloc_cellval(k.cx, WIKRT_PL, wikrt_i2v(e), WIKRT_VOID)} })

\* (*tl) = WIKRT_UNIT_INR; return WIKRT_OK
ListEnd(k) ==
    The({ [err |-> WIKRT_OK, v |-> k1.txt, cx |-> k1.cx] :
          k1 \in {SetTl(k, WIKRT_UNIT_INR)} })

ListFail(k, err) == [err |-> err, v |-> k.txt, cx |-> k.cx]

RECURSIVE TextLoop(_, _)
TextLoop(k, s) ==
    IF s = <<>> THEN ListEnd(k)
    ELSE The({ IF ~u.ok THEN ListEnd(k)
               ELSE IF ~wikrt_text_char(u.cp) THEN ListFail(k, WIKRT_INVAL)
               ELSE The({ IF k1.full THEN ListFail(k1, WIKRT_CXFULL)
                          ELSE TextLoop(k1, SubSeq(s, u.n + 1, Len(s))) :
                          k1 \in {ListSnoc(k, u.cp)} }) :
               u \in {utf8_step(s)} })

_wikrt_alloc_text(c, cstr, len) == TextLoop(ListStart(c), SubSeq(cstr, 1, len))

RECURSIVE BinaryLoop(_, _)
BinaryLoop(k, buff) ==
    IF buff = <<>> THEN ListEnd(k)
    ELSE The({ IF k1.full THEN ListFail(k1, WIKRT_CXFULL)
               ELSE BinaryLoop(k1, Tail(buff)) :
               k1 \in {ListSnoc(k, Head(buff))} })

\* a binary that is always the empty list
_wikrt_alloc_binary_mut(c, buff, nBytes) == ListEnd(ListStart(c))
_wikrt_alloc_binary(c, buff, nBytes) == BinaryLoop(ListStart(c), SubSeq(buff, 1, nBytes))

----------------------------------------------------------------------------
(* Specification SpecSum: one value, wrapped in up to MaxWrap sums and then *)
(* unwrapped again.                                                         *)

Tok_m == <<58, 109>>

\* the values the caller starts from, each built by the runtime's own
\* constructors in a fresh context
BaseValue(k) ==
    CASE k = 1 -> [err |-> WIKRT_OK, set |-> TRUE, v |-> WIKRT_UNIT, cx |-> EmptyCx]
      [] k = 2 -> [err |-> WIKRT_OK, set |-> TRUE, v |-> wikrt_i2v(4), cx |-> EmptyCx]
      [] k = 3 -> wikrt_alloc_medint(EmptyCx, TRUE, 73741824, 1, 0)
      [] k = 4 -> _wikrt_alloc_prod(EmptyCx, WIKRT_UNIT, wikrt_i2v(4))
      [] k = 5 -> The({ _wikrt_alloc_sum(p.cx, FALSE, p.v) :
                        p \in {_wikrt_alloc_prod(EmptyCx, WIKRT_UNIT, WIKRT_UNIT)} })
      [] k = 6 -> _wikrt_alloc_sum(EmptyCx, TRUE, wikrt_i2v(4))
      [] k = 7 -> _wikrt_alloc_seal(EmptyCx, Tok_m, WIKRT_UNIT, FALSE)
      [] k = 8 -> CellResult(wikrt_alloc_cellval(EmptyCx, WIKRT_O, Word(0, WIKRT_OTAG_BLOCK),
                                                 WIKRT_UNIT_INR), TRUE)
BaseKinds == 1..8

\* the tree a wrapped in the directions dirs, the first outermost
RECURSIVE Wrapped(_, _)
Wrapped(dirs, a) ==
    IF dirs = <<>> THEN a ELSE <<"sum", Head(dirs), Wrapped(Tail(dirs), a)>>

NoRes == [op |-> "none", err |-> WIKRT_OK]

InitSum ==
    \E k \in BaseKinds :
        \E b \in {BaseValue(k)} :
            /\ cx = b.cx
            /\ regs = <<b.v>>
            /\ res = NoRes
            /\ hist = [v0 |-> b.v, a0 |-> Decode(b.cx, b.v, DecodeFuel), dirs |-> <<>>,
                       unwrapping |-> FALSE, n |-> 0]

WrapSum(inRight) ==
    /\ Len(hist.dirs) < MaxWrap
    /\ ~hist.unwrapping
    /\ \E r \in {_wikrt_alloc_sum(cx, inRight, regs[1])} :
           /\ cx' = r.cx
           /\ regs' = IF r.err = WIKRT_OK THEN <<r.v>> ELSE regs
           /\ res' = [op |-> "wrap_sum", err |-> r.err, inRight |-> inRight,
                      expect |-> inRight, v0 |-> regs[1], cx0 |-> cx]
           /\ hist' = IF r.err = WIKRT_OK
                      THEN [hist EXCEPT !.dirs = <<inRight>> \o @, !.n = @ + 1]
                      ELSE hist

UnwrapSum ==
    /\ hist.dirs # <<>>
    /\ \E r \in {_wikrt_split_sum(cx, regs[1])} :
           /\ cx' = r.cx
           /\ regs' = <<r.v>>
           /\ res' = [op |-> "unwrap_sum", err |-> r.err, inRight |-> r.inRight,
                      expect |-> Head(hist.dirs), v0 |-> regs[1], cx0 |-> cx]
           /\ hist' = [hist EXCEPT !.dirs = Tail(@), !.unwrapping = TRUE]

\* unwrap_sum of the value the caller started from, when that is no sum;
\* the caller keeps the word it passed
UnwrapBase ==
    /\ hist.dirs = <<>>
    /\ hist.a0[1] # "sum"
    /\ ~hist.unwrapping \/ (res.op = "unwrap_sum")
    /\ \E r \in {_wikrt_split_sum(cx, regs[1])} :
           /\ cx' = r.cx
           /\ regs' = regs
           /\ res' = [op |-> "unwrap_base", err |-> r.err, inRight |-> r.inRight,
                      out |-> r.v, cx0 |-> cx]
           /\ hist' = [hist EXCEPT !.unwrapping = TRUE]

NextSum == (\E inRight \in BOOLEAN : WrapSum(inRight)) \/ UnwrapSum \/ UnwrapBase

SpecSum == InitSum /\ [][NextSum]_vars

\* C1: every unwrap_sum of a value wrapped d1..dn returns OK and the
\* direction wrapped last among those still on the value; once all are
\* unwrapped the caller holds the original value word, denoting the
\* original value.
C1_SumRoundTrip ==
    /\ (res.op = "unwrap_sum") =>
          ((res.err = WIKRT_OK) /\ (res.inRight = res.expect))
    /\ (hist.dirs = <<>>) =>
          ((regs[1] = hist.v0) /\ (Decode(cx, regs[1], DecodeFuel) = hist.a0))
    /\ Decode(cx, regs[1], DecodeFuel) = Wrapped(hist.dirs, hist.a0)

\* C1 witness: more than twelve directions were wrapped (so deep-sum cells
\* chained) and all of them have been unwrapped again.
C1_Witness ==
    /\ res.op = "unwrap_sum"
    /\ hist.n > 12
    /\ hist.dirs = <<>>
    /\ res.err = WIKRT_OK

\* C14: unwrap_sum of a value that is no sum (unit, a pair, a small
\* integer, a bignum, a sealed value, a block) returns TYPE_ERROR, frees and
\* allocates nothing and changes no word of the arena; the value the caller
\* passed still denotes what it denoted.
C14_UnwrapNonSum ==
    (res.op = "unwrap_base") =>
        /\ res.err = WIKRT_TYPE_ERROR
        /\ cx = res.cx0
        /\ Decode(cx, regs[1], DecodeFuel) = hist.a0

\* C14 witness: unwrap_sum has been applied to the block, after the block
\* had been wrapped and unwrapped again.
C14_Witness ==
    /\ res.op = "unwrap_base"
    /\ hist.a0[1] = "block"
    /\ hist.n > 0

\* the number of directions in the data bits s of a deep-sum header
RECURSIVE DirCount(_)
DirCount(s) == IF s = 0 THEN 0 ELSE 1 + DirCount(s \div 4)

\* v refers to a deep-sum cell; its number of directions
IsDeepSum(c, v) ==
    /\ wikrt_vtag(v) = WIKRT_O
    /\ wikrt_vaddr(v) # 0
    /\ LOBYTE(Rd(c, wikrt_vaddr(v), 0)) = WIKRT_OTAG_DEEPSUM
DeepDirs(c, v) == DirCount(Data24(Rd(c, wikrt_vaddr(v), 0)))

\* C15: a wrap_sum that returns OK allocates nothing when the value is
\* a reference with tag P or a deep-sum cell with fewer than twelve
\* directions, and otherwise allocates exactly one cell, free before, that
\* holds the one new direction and the value; it frees nothing.  An
\* unwrap_sum of a sum frees exactly one cell when the value is a deep-sum
\* cell with one direction and nothing otherwise; it allocates nothing.
C15_SumAllocation ==
    /\ ((res.op = "wrap_sum") /\ (res.err = WIKRT_OK)) =>
          /\ cx.bf = res.cx0.bf
          /\ IF \/ wikrt_vtag(res.v0) = WIKRT_P
                \/ IsDeepSum(res.cx0, res.v0) /\ (DeepDirs(res.cx0, res.v0) < 12)
             THEN cx.ba = res.cx0.ba
             ELSE /\ cx.ba = res.cx0.ba + WIKRT_CELLSIZE
                  /\ wikrt_vtag(regs[1]) = WIKRT_O
                  /\ IsFree(res.cx0, wikrt_vaddr(regs[1]))
                  /\ ~IsFree(cx, wikrt_vaddr(regs[1]))
                  /\ Rd(cx, wikrt_vaddr(regs[1]), 0)
                         = Word(IF res.inRight THEN 3 ELSE 2, WIKRT_OTAG_DEEPSUM)
                  /\ Rd(cx, wikrt_vaddr(regs[1]), 1) = res.v0
    /\ (res.op = "unwrap_sum") =>
          /\ cx.ba = res.cx0.ba
          /\ IF IsDeepSum(res.cx0, res.v0) /\ (DeepDirs(res.cx0, res.v0) = 1)
             THEN /\ cx.bf = res.cx0.bf + WIKRT_CELLSIZE
                  /\ IsFree(cx, wikrt_vaddr(res.v0))
             ELSE cx.bf = res.cx0.bf

\* C15 witness: a deep-sum cell with twelve directions was wrapped once more,
\* which allocated a second cell.
C15_Witness ==
    /\ res.op = "wrap_sum"
    /\ res.err = WIKRT_OK
    /\ IsDeepSum(res.cx0, res.v0)
    /\ DeepDirs(res.cx0, res.v0) = 12
    /\ cx.ba = res.cx0.ba + WIKRT_CELLSIZE

----------------------------------------------------------------------------
(* Specification SpecSeal: one value, sealed with up to MaxSeals tokens and *)
(* then unsealed again, on a build with signed or with unsigned char.       *)

Tok_foobar == <<58, 102, 111, 111, 98, 97, 114>>

\* ":", ":m", ":cx", ":env", ":foobar", "abracadabra", ":" U+00E9,
\* ":" U+2190, U+2190 and a token of 63 bytes
SealTokens ==
    {<<58>>, Tok_m, <<58, 99, 120>>, <<58, 101, 110, 118>>, Tok_foobar,
     <<97, 98, 114, 97, 99, 97, 100, 97, 98, 114, 97>>,
     <<58, 195, 169>>, <<58, 226, 134, 144>>, <<226, 134, 144>>,
     [k \in 1..63 |-> 49 + (k % 9)]}

\* tokens the runtime is to refuse: the empty one, one of 64 bytes, and
\* tokens with '{', '}', TAB, LF, DEL and U+FFFD
BadTokens ==
    {<<>>, [k \in 1..64 |-> 49 + (k % 9)], <<58, 123>>, <<123, 102, 111, 111, 125>>,
     <<97, 125>>, <<58, 9>>, <<102, 111, 111, 10, 98, 97, 114>>, <<58, 127>>,
     <<239, 191, 189>>}

\* the token is 1..63 bytes of whole UTF-8 characters that wikrt_token_char
\* accepts
RECURSIVE TokenCharsOk(_)
TokenCharsOk(s) ==
    \/ s = <<>>
    \/ \E u \in {utf8_step(s)} :
           u.ok /\ wikrt_token_char(u.cp) /\ TokenCharsOk(SubSeq(s, u.n + 1, Len(s)))
ValidToken(s) == (0 < Len(s)) /\ (Len(s) < 64) /\ TokenCharsOk(s)

InitSeal ==
    \E k \in {1, 2, 4}, sc \in BOOLEAN :
        \E b \in {BaseValue(k)} :
            /\ cx = b.cx
            /\ regs = <<b.v>>
            /\ res = NoRes
            /\ hist = [v0 |-> b.v, a0 |-> Decode(b.cx, b.v, DecodeFuel), toks |-> <<>>,
                       unwrapping |-> FALSE, signedChar |-> sc, allocs |-> <<>>]

WrapSeal(tok) ==
    /\ Len(hist.toks) < MaxSeals
    /\ ~hist.unwrapping
    /\ \E r \in {_wikrt_alloc_seal(cx, tok, regs[1], hist.signedChar)} :
           /\ cx' = r.cx
           /\ regs' = IF r.err = WIKRT_OK THEN <<r.v>> ELSE regs
           /\ res' = [op |-> "wrap_seal", err |-> r.err, tok |-> tok, out |-> r.v,
                      v0 |-> regs[1], cx0 |-> cx]
           /\ hist' = IF r.err = WIKRT_OK
                      THEN [hist EXCEPT !.toks = <<tok>> \o @,
                                        !.allocs = <<r.cx.ba - cx.ba>> \o @]
                      ELSE hist

UnwrapSeal ==
    /\ hist.toks # <<>>
    /\ \E r \in {_wikrt_split_seal(cx, regs[1])} :
           /\ cx' = r.cx
           /\ regs' = <<r.v>>
           /\ res' = [op |-> "unwrap_seal", err |-> r.err, buff |-> r.buff,
                      tok |-> Head(hist.toks), alloc |-> Head(hist.allocs), cx0 |-> cx]
           /\ hist' = [hist EXCEPT !.toks = Tail(@), !.allocs = Tail(@),
                                   !.unwrapping = TRUE]

NextSeal == (\E tok \in SealTokens \cup BadTokens : WrapSeal(tok)) \/ UnwrapSeal

SpecSeal == InitSeal /\ [][NextSeal]_vars

\* C2: unwrap_seal of a value sealed with a valid token returns OK and the
\* byte-identical NUL-terminated token, and once every seal is removed the
\* caller holds the original value.
C2_SealRoundTrip ==
    /\ (res.op = "unwrap_seal") =>
          /\ res.err = WIKRT_OK
          /\ CStr(res.buff) = res.tok
          /\ res.buff[Len(res.tok) + 1] = 0
    /\ ((res.op = "unwrap_seal") /\ (hist.toks = <<>>)) =>
          ((regs[1] = hist.v0) /\ (Decode(cx, regs[1], DecodeFuel) = hist.a0))

\* C18: wrap_seal with a token that is empty, of 64 bytes or more, or holds
\* a character that wikrt_token_char refuses returns INVAL, allocates and
\* frees nothing, changes no word of the arena and leaves the caller's value
\* as it was.
C18_SealInval ==
    ((res.op = "wrap_seal") /\ ~ValidToken(res.tok)) =>
        /\ res.err = WIKRT_INVAL
        /\ cx = res.cx0
        /\ regs[1] = res.v0

\* C19: a wrap_seal that returns OK allocates one cell when the token starts
\* with ':' and has at most 4 bytes, and for any other valid token of len
\* bytes one block of 8 + len bytes rounded up to whole cells; it frees
\* nothing.  An unwrap_seal frees as many bytes as the wrap_seal that put the
\* seal on allocated, and allocates nothing.
C19_SealBytes ==
    /\ ((res.op = "wrap_seal") /\ (res.err = WIKRT_OK) /\ ValidToken(res.tok)) =>
          /\ cx.bf = res.cx0.bf
          /\ cx.ba - res.cx0.ba =
                 IF (res.tok[1] = 58) /\ (Len(res.tok) <= 4) THEN 8
                 ELSE 8 * ((8 + Len(res.tok) + 7) \div 8)
          /\ IsFree(res.cx0, wikrt_vaddr(res.out))
          /\ ~IsFree(cx, wikrt_vaddr(res.out) + (cx.ba - res.cx0.ba) - 4)
    /\ ((res.op = "unwrap_seal") /\ ValidToken(res.tok)) =>
          /\ cx.ba = res.cx0.ba
          /\ cx.bf - res.cx0.bf = res.alloc

\* C19 witness: the token of 63 bytes was put on and taken off again, which
\* freed the 72 bytes it had taken.
C19_Witness ==
    /\ res.op = "unwrap_seal"
    /\ Len(res.tok) = 63
    /\ res.alloc = 72
    /\ cx.bf - res.cx0.bf = 72

----------------------------------------------------------------------------
(* Specification SpecCopy: the caller builds one value in a fresh context,  *)
(* in at most MaxBuild steps, copies it, and drops the copy and the         *)
(* original.                                                                *)

\* words of the arena that hold the value v (indices into mem)
CellWords(addr, nbytes) ==
    {(addr \div 4) + i : i \in 0..((WIKRT_CELLBUFF(nbytes) \div 4) - 1)}

RECURSIVE Reach(_, _, _)
Reach(c, v, fuel) ==
    IF (fuel = 0) \/ wikrt_copy_shallow(v) \/ ~InArena(wikrt_vaddr(v), 2) THEN {}
    ELSE LET addr == wikrt_vaddr(v)
             otag == Rd(c, addr, 0)
         IN  IF wikrt_vtag(v) # WIKRT_O THEN
                 CellWords(addr, WIKRT_CELLSIZE) \cup Reach(c, Rd(c, addr, 0), fuel - 1)
                     \cup Reach(c, Rd(c, addr, 1), fuel - 1)
             ELSE IF wikrt_otag_bigint(otag) THEN
                 CellWords(addr, 4 + ((Data24(otag) \div 2) * 4))
             ELSE IF wikrt_otag_seal(otag) THEN
                 CellWords(addr, WIKRT_CELLSIZE + (Data24(otag) % 64))
                     \cup Reach(c, Rd(c, addr, 1), fuel - 1)
             ELSE CellWords(addr, WIKRT_CELLSIZE) \cup Reach(c, Rd(c, addr, 1), fuel - 1)

\* the tree holds an affine block that no opval without the lazy bit shields
RECURSIVE AffUnshielded(_)
AffUnshielded(t) ==
    CASE t[1] = "pair" -> AffUnshielded(t[2]) \/ AffUnshielded(t[3])
      [] t[1] \in {"sum", "seal"} -> AffUnshielded(t[3])
      [] t[1] = "block" -> wikrt_block_aff(t[2]) \/ AffUnshielded(t[3])
      [] t[1] = "opval" -> OpvalLazy(t[2]) /\ AffUnshielded(t[3])
      [] OTHER -> FALSE

\* the tree holds an affine or a relevant block
RECURSIVE HasAffRel(_)
HasAffRel(t) ==
    CASE t[1] = "pair" -> HasAffRel(t[2]) \/ HasAffRel(t[3])
      [] t[1] \in {"sum", "seal", "opval"} -> HasAffRel(t[3])
      [] t[1] = "block" -> wikrt_block_aff(t[2]) \/ wikrt_block_rel(t[2]) \/ HasAffRel(t[3])
      [] OTHER -> FALSE

\* block headers: no flag, relevant, affine
BlockHeaders == {Word(0, WIKRT_OTAG_BLOCK), Word(1, WIKRT_OTAG_BLOCK), Word(2, WIKRT_OTAG_BLOCK)}
\* opval headers: plain, and with WIKRT_OPVAL_LAZYKF
OpvalHeaders == {Word(0, WIKRT_OTAG_OPVAL), Word(1, WIKRT_OTAG_OPVAL)}

\* the shallow values the caller pairs the value with
HeadLeaves == {WIKRT_UNIT, wikrt_i2v(4)}
TailLeaves == {WIKRT_UNIT, wikrt_i2v(4), wikrt_i2v(8)}

InitCopy ==
    \E k \in 1..3 :
        \E b \in {BaseValue(k)} :
            /\ cx = b.cx
            /\ regs = <<b.v>>
            /\ res = NoRes
            /\ hist = [phase |-> "build", n |-> 0, copied |-> FALSE, affrel |-> FALSE,
                       cx0 |-> b.cx]

\* the build step that made r out of the value held
Built(r) ==
    /\ hist.phase = "build"
    /\ hist.n < MaxBuild
    /\ cx' = r.cx
    /\ regs' = IF r.err = WIKRT_OK THEN <<r.v>> ELSE regs
    /\ res' = [op |-> "build", err |-> r.err]
    /\ hist' = [hist EXCEPT !.n = @ + 1, !.cx0 = r.cx]

ConsHead(x) == Built(_wikrt_alloc_prod(cx, x, regs[1]))
ConsTail(x) == Built(_wikrt_alloc_prod(cx, regs[1], x))
BuildSum(inRight) == Built(_wikrt_alloc_sum(cx, inRight, regs[1]))
BuildSeal(tok) == Built(_wikrt_alloc_seal(cx, tok, regs[1], FALSE))
BuildBlock(h) == Built(CellResult(wikrt_alloc_cellval(cx, WIKRT_O, h, regs[1]), TRUE))
BuildOpval(h) == Built(CellResult(wikrt_alloc_cellval(cx, WIKRT_O, h, regs[1]), TRUE))

Copy(bCopyAff) ==
    /\ hist.phase = "build"
    /\ \E r \in {_wikrt_copy(cx, regs[1], bCopyAff)} :
           /\ cx' = r.cx
           /\ regs' = IF r.err = WIKRT_OK THEN <<regs[1], r.v>> ELSE regs
           /\ res' = [op |-> "copy", err |-> r.err, bCopyAff |-> bCopyAff, dst |-> r.v]
           /\ hist' = [hist EXCEPT !.phase = IF r.err = WIKRT_OK THEN "copied" ELSE "failed",
                                   !.copied = TRUE, !.cx0 = cx,
                                   !.affrel = HasAffRel(Decode(cx, regs[1], DecodeFuel))]

DropCopy(bDropRel) ==
    /\ hist.phase = "copied"
    /\ \E r \in {_wikrt_drop(cx, regs[2], bDropRel)} :
           /\ cx' = r.cx
           /\ regs' = <<regs[1]>>
           /\ res' = [op |-> "drop", err |-> r.err, bDropRel |-> bDropRel, v |-> regs[2]]
           /\ hist' = [hist EXCEPT !.phase = IF r.err = WIKRT_OK THEN "dropped" ELSE "failed",
                                   !.cx0 = cx]

DropOrig(bDropRel) ==
    /\ hist.phase \in {"build", "dropped"}
    /\ \E r \in {_wikrt_drop(cx, regs[1], bDropRel)} :
           /\ cx' = r.cx
           /\ regs' = <<>>
           /\ res' = [op |-> "drop", err |-> r.err, bDropRel |-> bDropRel, v |-> regs[1]]
           /\ hist' = [hist EXCEPT !.phase = IF r.err = WIKRT_OK THEN "done" ELSE "failed",
                                   !.cx0 = cx]

\* the caller's drop of the destination of a copy that failed
DropFailed ==
    /\ hist.phase = "failed"
    /\ res.op = "copy"
    /\ res.err \in {WIKRT_CXFULL, WIKRT_TYPE_ERROR}
    /\ \E r \in {_wikrt_drop(cx, res.dst, TRUE)} :
           /\ cx' = r.cx
           /\ regs' = regs
           /\ res' = [op |-> "cleanup", err |-> r.err, copyErr |-> res.err, v |-> res.dst]
           /\ hist' = [hist EXCEPT !.phase = "cleaned"]

NextCopy ==
    \/ \E x \in HeadLeaves : ConsHead(x)
    \/ \E x \in TailLeaves : ConsTail(x)
    \/ \E inRight \in BOOLEAN : BuildSum(inRight)
    \/ \E tok \in {Tok_m, Tok_foobar} : BuildSeal(tok)
    \/ \E h \in BlockHeaders : BuildBlock(h)
    \/ \E h \in OpvalHeaders : BuildOpval(h)
    \/ \E bCopyAff \in BOOLEAN : Copy(bCopyAff)
    \/ \E bDropRel \in BOOLEAN : DropCopy(bDropRel)
    \/ \E bDropRel \in BOOLEAN : DropOrig(bDropRel)
    \/ DropFailed

SpecCopy == InitCopy /\ [][NextCopy]_vars

\* C3: when copy returns OK the copy is structurally equal to the value
\* copied, the original and every word reachable from it are unchanged, and
\* no arena word is reachable from both the original and the copy.
C3_CopyStructural ==
    ((res.op = "copy") /\ (res.err = WIKRT_OK)) =>
        LET t0 == Decode(hist.cx0, regs[1], DecodeFuel)
        IN  /\ Decode(cx, regs[2], DecodeFuel) = t0
            /\ Decode(cx, regs[1], DecodeFuel) = t0
            /\ \A w \in Reach(hist.cx0, regs[1], DecodeFuel) : cx.mem[w] = hist.cx0.mem[w]
            /\ Reach(cx, regs[1], DecodeFuel) \cap Reach(cx, regs[2], DecodeFuel) = {}


\* C4: for a value that holds no affine and no relevant block, a successful
\* copy, a drop of the copy and a drop of the original bring the live byte
\* count (ct_bytes_alloc - ct_bytes_freed) back to what it was before the
\* value was built, which is zero in the fresh context.
C4_CopyDropBalance ==
    ((hist.phase = "done") /\ hist.copied /\ ~hist.affrel) => (cx.ba - cx.bf = 0)

\* C10: a copy with bCopyAff false of a value holding an affine block that
\* no opval without the lazy bit shields returns TYPE_ERROR (or runs out of
\* memory before it reaches the block); a block that is not affine, or any
\* block when bCopyAff is true, is copied into one cell that was free
\* before, with the same header word and a copy of its opcode list.
C10_AffineBlockCopy ==
    (res.op = "copy") =>
        LET v == regs[1]
            t0 == Decode(hist.cx0, v, DecodeFuel)
        IN  /\ (~res.bCopyAff /\ AffUnshielded(t0)) =>
                   (res.err \in {WIKRT_TYPE_ERROR, WIKRT_CXFULL, "UB"})
            /\ ((t0[1] = "block") /\ (res.bCopyAff \/ ~wikrt_block_aff(t0[2]))
                    /\ (res.err = WIKRT_OK)) =>
                   LET a == wikrt_vaddr(regs[2])
                       a0 == wikrt_vaddr(v)
                   IN  /\ wikrt_vtag(regs[2]) = WIKRT_O
                       /\ IsFree(hist.cx0, a)
                       /\ Rd(cx, a, 0) = Rd(hist.cx0, a0, 0)
                       /\ Decode(cx, Rd(cx, a, 1), DecodeFuel)
                              = Decode(hist.cx0, Rd(hist.cx0, a0, 1), DecodeFuel)

\* the tree holds a block with the relevant bit (bit 8 of its header) that
\* no opval without the lazy bit shields
RECURSIVE RelUnshielded(_)
RelUnshielded(t) ==
    CASE t[1] = "pair" -> RelUnshielded(t[2]) \/ RelUnshielded(t[3])
      [] t[1] \in {"sum", "seal"} -> RelUnshielded(t[3])
      [] t[1] = "block" -> ((Data24(t[2]) % 2) = 1) \/ RelUnshielded(t[3])
      [] t[1] = "opval" -> ((Data24(t[2]) % 2) = 1) /\ RelUnshielded(t[3])
      [] OTHER -> FALSE

\* C11: a drop with bDropRel false of a value holding a relevant block that
\* no non-lazy opval shields returns TYPE_ERROR; a drop of a block with
\* bDropRel true, or of a block that is not relevant, frees the block's
\* cell and drops its opcode list: every word of the list is free
\* afterwards unless the list itself holds a relevant block that stops the
\* drop.
C11_RelevantBlockDrop ==
    (res.op = "drop") =>
        LET t0 == Decode(hist.cx0, res.v, DecodeFuel)
        IN  /\ (~res.bDropRel /\ RelUnshielded(t0)) => (res.err = WIKRT_TYPE_ERROR)
            /\ ((t0[1] = "block") /\ (res.bDropRel \/ ((Data24(t0[2]) % 2) = 0))) =>
                   /\ IsFree(cx, wikrt_vaddr(res.v))
                   /\ (res.bDropRel \/ ~RelUnshielded(t0[3])) =>
                          /\ res.err = WIKRT_OK
                          /\ \A w \in Reach(hist.cx0, res.v, DecodeFuel) : IsFree(cx, 4 * w)

\* C11 witness: a pair that holds a relevant block was dropped with bDropRel
\* false and the drop returned TYPE_ERROR.
C11_Witness ==
    /\ res.op = "drop"
    /\ ~res.bDropRel
    /\ res.err = WIKRT_TYPE_ERROR
    /\ Decode(hist.cx0, res.v, DecodeFuel)[1] = "pair"
    /\ RelUnshielded(Decode(hist.cx0, res.v, DecodeFuel))

\* C12: when a copy has failed with CXFULL or TYPE_ERROR, a drop of the
\* destination alone returns OK, brings the live byte count back to what it
\* was before the copy, and leaves the original as it was: it denotes the
\* same value and none of its words is on a free list.
C12_FailedCopyCleanup ==
    (res.op = "cleanup") =>
        /\ res.err = WIKRT_OK
        /\ cx.ba - cx.bf = hist.cx0.ba - hist.cx0.bf
        /\ Decode(cx, regs[1], DecodeFuel) = Decode(hist.cx0, regs[1], DecodeFuel)
        /\ \A w \in Reach(hist.cx0, regs[1], DecodeFuel) : ~IsFree(cx, 4 * w)

\* the values the caller holds: the registers, and the value or destination
\* that an operation that failed was given
Held ==
    {regs[i] : i \in 1..Len(regs)}
        \cup (IF (res.op = "drop") /\ (res.err # WIKRT_OK) THEN {res.v} ELSE {})
        \cup (IF (res.op = "copy") /\ (res.err # WIKRT_OK) THEN {res.dst} ELSE {})

\* C13: in every state every word of the arena is on a free list or
\* reachable from a value the caller holds.
C13_NoCellLost ==
    \A w \in 2..(MemWords - 1) :
        \/ IsFree(cx, 4 * w)
        \/ \E v \in Held : w \in Reach(cx, v, DecodeFuel)

----------------------------------------------------------------------------
(* Specification SpecInt: the caller introduces one value in a fresh        *)
(* context and reads it with peek_i32, peek_i64 and peek_istr; it may hand  *)
(* the string peek_istr printed to intro_istr.                              *)

\* An integer as mathematics has it: its sign and its magnitude in base
\* 10^9, least significant digit first, with no leading zero digit.
RECURSIVE Trim(_)
Trim(m) == IF (Len(m) > 1) /\ (m[Len(m)] = 0) THEN Trim(SubSeq(m, 1, Len(m) - 1)) ELSE m

AbsInt(neg, m) == [neg |-> neg, m |-> Trim(m)]

AbsOfInt32(n) ==
    IF n = INT32_MIN THEN AbsInt(TRUE, <<147483648, 2>>)
    ELSE LET a == IF n < 0 THEN 0 - n ELSE n
         IN  AbsInt(n < 0, <<a % WIKRT_BIGINT_DIGIT, a \div WIKRT_BIGINT_DIGIT>>)

\* a <= b for magnitudes
RECURSIVE MagLe(_, _)
MagLe(a, b) ==
    IF Len(a) # Len(b) THEN Len(a) < Len(b)
    ELSE IF a[Len(a)] # b[Len(b)] THEN a[Len(a)] < b[Len(b)]
    ELSE IF Len(a) = 1 THEN TRUE
    ELSE MagLe(SubSeq(a, 1, Len(a) - 1), SubSeq(b, 1, Len(b) - 1))

InInt32(x) == MagLe(x.m, IF x.neg THEN <<147483648, 2>> ELSE <<147483647, 2>>)
InInt64(x) == MagLe(x.m, IF x.neg THEN INT64_MIN.m ELSE INT64_MAX.m)
InSmall(x) == MagLe(x.m, <<73741823, 1>>)

\* the decimal form, as character codes
RECURSIVE DecimalOfNat(_)
DecimalOfNat(n) ==
    IF n < 10 THEN <<48 + n>> ELSE DecimalOfNat(n \div 10) \o <<48 + (n % 10)>>
Pad9(n) == [k \in 1..9 |-> 48 + ((n \div (10 ^ (9 - k))) % 10)]
RECURSIVE DecimalLower(_)
DecimalLower(m) ==
    IF m = <<>> THEN <<>> ELSE DecimalLower(Tail(m)) \o Pad9(Head(m))
Decimal(x) ==
    (IF x.neg THEN <<45>> ELSE <<>>) \o DecimalOfNat(x.m[Len(x.m)])
        \o DecimalLower(SubSeq(x.m, 1, Len(x.m) - 1))

\* the integer the word v denotes in the arena
AbsOfValue(c, v) ==
    IF wikrt_i(v) THEN AbsOfInt32(wikrt_v2i(v))
    ELSE IF (wikrt_vtag(v) = WIKRT_O) /\ (wikrt_vaddr(v) # 0)
            /\ wikrt_otag_bigint(Rd(c, wikrt_vaddr(v), 0))
    THEN [neg |-> (Data24(Rd(c, wikrt_vaddr(v), 0)) % 2) = 1,
          m |-> [k \in 1..(Data24(Rd(c, wikrt_vaddr(v), 0)) \div 2)
                   |-> BigDigit(c, wikrt_vaddr(v), k - 1)]]
    ELSE [neg |-> FALSE, m |-> <<>>]

I32Inputs ==
    {0, 1, 0 - 1, 9, 10, 0 - 10, 42, 999999999, 1000000000, 0 - 1000000000,
     WIKRT_SMALLINT_MAX, WIKRT_SMALLINT_MIN, WIKRT_SMALLINT_MAX + 1,
     WIKRT_SMALLINT_MIN - 1, 2000000000, 0 - 2000000000,
     INT32_MAX, INT32_MIN, INT32_MIN + 1}

I64Inputs ==
    {I64(FALSE, 0, 0, 0), I64(TRUE, 7, 0, 0), I64(FALSE, 73741823, 1, 0),
     I64(TRUE, 73741823, 1, 0), I64(FALSE, 73741824, 1, 0), I64(TRUE, 73741824, 1, 0),
     I64(FALSE, 147483647, 2, 0), I64(TRUE, 147483648, 2, 0),
     I64(FALSE, 147483648, 2, 0), I64(TRUE, 147483649, 2, 0),
     I64(FALSE, 999999999, 999999999, 0), I64(TRUE, 999999999, 999999999, 0),
     I64(FALSE, 0, 0, 1), I64(TRUE, 0, 0, 1), I64(FALSE, 5, 0, 3),
     I64(FALSE, 854775806, 223372036, 9), I64(TRUE, 854775807, 223372036, 9),
     INT64_MAX, INT64_MIN}

\* integers beyond int64_t, as arithmetic leaves them in the arena
BigInputs ==
    {AbsInt(neg, m) : neg \in BOOLEAN,
                      m \in {<<854775809, 223372036, 9>>, <<0, 0, 10>>,
                             <<999999999, 999999999, 999999999>>,
                             <<0, 0, 0, 1>>, <<1, 20, 300, 4000>>}}

\* a bignum of Len(m) digits: (size&sign, array of digits), little-endian
RECURSIVE WriteDigits(_, _, _, _)
WriteDigits(c, addr, m, k) ==
    IF k > Len(m) THEN c ELSE WriteDigits(Wr(c, addr, k, WordOfNat(m[k])), addr, m, k + 1)

AllocBigint(c, x) ==
    IF Len(x.m) <= 3
    THEN wikrt_alloc_medint(c, ~x.neg, x.m[1], x.m[2], x.m[3])
    ELSE The({ IF ~r.ok
               THEN [err |-> WIKRT_CXFULL, set |-> FALSE, v |-> WIKRT_VOID, cx |-> r.cx]
               ELSE [err |-> WIKRT_OK, set |-> TRUE, v |-> wikrt_tag_addr(WIKRT_O, r.addr),
                     cx |-> WriteDigits(Wr(r.cx, r.addr, 0,
                                           wikrt_mkotag_bigint(~x.neg, Len(x.m))),
                                        r.addr, x.m, 1)] :
               r \in {wikrt_alloc(c, 4 + (4 * Len(x.m)))} })

\* values that are not integers
OtherKinds == {1, 4, 5, 6, 7}

\* the caller's buffer before a call: MaxBuf characters '#'
FreshBuff == [k \in 1..MaxBuf |-> 35]

InitInt ==
    /\ cx = EmptyCx
    /\ regs = <<>>
    /\ res = NoRes
    /\ hist = [phase |-> "empty", src |-> "none", n |-> 0, val |-> AbsInt(FALSE, <<0>>),
               cx0 |-> EmptyCx]

\* the introduction that returned r, of a value of kind src made from n
Introduced(r, src, n, val) ==
    /\ hist.phase = "empty"
    /\ cx' = r.cx
    /\ regs' = IF r.err = WIKRT_OK THEN <<r.v>> ELSE regs
    /\ res' = [op |-> "intro", err |-> r.err]
    /\ hist' = [phase |-> IF r.err = WIKRT_OK THEN "held" ELSE "failed",
                src |-> src, n |-> n, val |-> val, cx0 |-> r.cx]

IntroI32(n) == Introduced(_wikrt_alloc_i32(cx, n), "i32", n, AbsOfInt32(n))
IntroI64(n) == Introduced(_wikrt_alloc_i64(cx, n), "i64", n, AbsInt(n.neg, n.m))
IntroBig(x) == Introduced(AllocBigint(cx, x), "big", 0, x)
IntroOther(k) ==
    /\ cx = EmptyCx
    /\ Introduced(BaseValue(k), "other", k, AbsInt(FALSE, <<0>>))

PeekI32 ==
    /\ hist.phase = "held"
    /\ res' = [op |-> "peek_i32"] @@ _wikrt_peek_i32(cx, regs[1])
    /\ UNCHANGED <<cx, regs, hist>>

PeekI64 ==
    /\ hist.phase = "held"
    /\ res' = [op |-> "peek_i64"] @@ _wikrt_peek_i64(cx, regs[1])
    /\ UNCHANGED <<cx, regs, hist>>

PeekIstr(buffsz) ==
    /\ hist.phase = "held"
    /\ res' = [op |-> "peek_istr", avail |-> buffsz]
                  @@ _wikrt_peek_istr(cx, regs[1], FreshBuff, buffsz)
    /\ UNCHANGED <<cx, regs, hist>>

IntroIstr ==
    /\ hist.phase = "held"
    /\ res.op = "peek_istr"
    /\ res.err = WIKRT_OK
    /\ \E r \in {_wikrt_alloc_istr(cx, SubSeq(res.buff, 1, res.buffsz))} :
           /\ cx' = r.cx
           /\ regs' = <<regs[1], r.v>>
           /\ res' = [op |-> "intro_istr", err |-> r.err]
           /\ hist' = [hist EXCEPT !.phase = "end"]

NextInt ==
    \/ \E n \in I32Inputs : IntroI32(n)
    \/ \E n \in I64Inputs : IntroI64(n)
    \/ \E x \in BigInputs : IntroBig(x)
    \/ \E k \in OtherKinds : IntroOther(k)
    \/ PeekI32
    \/ PeekI64
    \/ \E buffsz \in 0..MaxBuf : PeekIstr(buffsz)
    \/ IntroIstr

SpecInt == InitInt /\ [][NextInt]_vars

\* C5: intro_i32(n) followed by peek_i32 returns OK and n, for every 32-bit
\* n; intro_i64(n) followed by peek_i64 returns OK and n, for every 64-bit n.
C5_IntRoundTrip ==
    /\ (hist.src \in {"i32", "i64"}) => (hist.phase # "failed")
    /\ ((res.op = "peek_i32") /\ (hist.src = "i32")) =>
           ((res.err = WIKRT_OK) /\ (res.i32 = hist.n))
    /\ ((res.op = "peek_i64") /\ (hist.src = "i64")) =>
           ((res.err = WIKRT_OK) /\ (res.i64 = hist.n))

C5_Witness ==
    /\ res.op = "peek_i64"
    /\ hist.src = "i64"
    /\ hist.n = INT64_MIN
    /\ res.i64 = INT64_MIN

\* C6: introducing n, printing it with peek_istr and introducing the
\* printed string with intro_istr yields OK and a value that peeks to n.
C6_IstrRoundTrip ==
    (res.op = "intro_istr") =>
        /\ res.err = WIKRT_OK
        /\ AbsOfValue(cx, regs[2]) = hist.val

\* C7: an integer made by intro_i32 or intro_i64 is a small integer, made
\* without allocation, iff -(2^30-1) <= n <= 2^30-1; otherwise it is a
\* bignum of 2 or 3 digits, each in 0..999999999, the most significant not
\* zero, with the sign bit set iff n < 0.
C7_Canonical ==
    ((hist.src \in {"i32", "i64"}) /\ (hist.phase = "held")) =>
        LET v == regs[1]
            addr == wikrt_vaddr(v)
            otag == Rd(cx, addr, 0)
            nDigits == Data24(otag) \div 2
        IN  /\ wikrt_i(v) <=> InSmall(hist.val)
            /\ wikrt_i(v) => ((cx.ba = 0) /\ (AbsOfInt32(wikrt_v2i(v)) = hist.val))
            /\ ~wikrt_i(v) =>
                   /\ wikrt_vtag(v) = WIKRT_O
                   /\ addr # 0
                   /\ wikrt_otag_bigint(otag)
                   /\ nDigits \in {2, 3}
                   /\ \A k \in 0..(nDigits - 1) :
                          BigDigit(cx, addr, k) \in 0..(WIKRT_BIGINT_DIGIT - 1)
                   /\ BigDigit(cx, addr, nDigits - 1) # 0
                   /\ ((Data24(otag) % 2) = 1) <=> hist.val.neg
                   /\ AbsOfValue(cx, v) = hist.val

C7_Witness ==
    /\ hist.src = "i64"
    /\ hist.phase = "held"
    /\ hist.val.neg
    /\ ~wikrt_i(regs[1])
    /\ Data24(Rd(cx, wikrt_vaddr(regs[1]), 0)) \div 2 = 3

\* C8: peek_istr on an integer stores in *buffsz the length of the decimal
\* form; with a smaller buffer it returns BUFFSZ and writes nothing, else it
\* returns OK and writes exactly the decimal form from buff[0] on; the value
\* and the arena are as before.
C8_PeekIstr ==
    ((res.op = "peek_istr") /\ (hist.src \in {"i32", "i64", "big"})) =>
        LET d == Decimal(hist.val)
        IN  /\ res.buffsz = Len(d)
            /\ (res.avail < Len(d)) => ((res.err = WIKRT_BUFFSZ) /\ (res.buff = FreshBuff))
            /\ (res.avail >= Len(d)) =>
                   /\ res.err = WIKRT_OK
                   /\ res.buff = d \o SubSeq(FreshBuff, Len(d) + 1, MaxBuf)
            /\ cx = hist.cx0
            /\ AbsOfValue(cx, regs[1]) = hist.val

C8_Witness ==
    /\ res.op = "peek_istr"
    /\ hist.src = "i64"
    /\ hist.n = INT64_MIN
    /\ res.err = WIKRT_OK
    /\ res.buffsz = 20
    /\ res.avail = 20

\* C9: peek_i32 (peek_i64) on an integer outside the int32 (int64) range
\* returns BUFFSZ and stores INT_MAX for a positive and INT_MIN for a
\* negative one; on a value that is no integer it returns TYPE_ERROR; in
\* both cases the value and the arena are as before.
C9_PeekSaturates ==
    /\ ((res.op = "peek_i32") /\ (hist.src \in {"i32", "i64", "big"})
            /\ ~InInt32(hist.val)) =>
           /\ res.err = WIKRT_BUFFSZ
           /\ res.i32 = IF hist.val.neg THEN INT32_MIN ELSE INT32_MAX
           /\ cx = hist.cx0
           /\ AbsOfValue(cx, regs[1]) = hist.val
    /\ ((res.op = "peek_i64") /\ (hist.src \in {"i32", "i64", "big"})
            /\ ~InInt64(hist.val)) =>
           /\ res.err = WIKRT_BUFFSZ
           /\ res.i64 = IF hist.val.neg THEN INT64_MIN ELSE INT64_MAX
           /\ cx = hist.cx0
           /\ AbsOfValue(cx, regs[1]) = hist.val
    /\ ((res.op \in {"peek_i32", "peek_i64"}) /\ (hist.src = "other")) =>
           /\ res.err = WIKRT_TYPE_ERROR
           /\ cx = hist.cx0
           /\ regs = <<BaseValue(hist.n).v>>

C9_Witness ==
    /\ res.op = "peek_i64"
    /\ hist.src = "big"
    /\ hist.val.neg
    /\ Len(hist.val.m) = 4
    /\ res.err = WIKRT_BUFFSZ
    /\ res.i64 = INT64_MIN

----------------------------------------------------------------------------
(* Specification SpecText: the caller fills a buffer with up to MaxChars    *)
(* characters and introduces a prefix of it as a text or as a binary in a   *)
(* fresh context.                                                           *)

MaxChars == 3

\* a, LF, TAB, DEL, U+00E9, U+2192, U+FFFD with their UTF-8 encodings
TextChars ==
    {[cp |-> 97, bytes |-> <<97>>], [cp |-> 10, bytes |-> <<10>>],
     [cp |-> 9, bytes |-> <<9>>], [cp |-> 127, bytes |-> <<127>>],
     [cp |-> 233, bytes |-> <<195, 169>>], [cp |-> 8594, bytes |-> <<226, 134, 146>>],
     [cp |-> 65533, bytes |-> <<239, 191, 189>>]}

InitText ==
    /\ cx = EmptyCx
    /\ regs = <<>>
    /\ res = NoRes
    /\ hist = [phase |-> "input", buf |-> <<>>, cps |-> <<>>, ends |-> <<>>]

AppendChar(ch) ==
    /\ hist.phase = "input"
    /\ Len(hist.cps) < MaxChars
    /\ hist' = [hist EXCEPT !.buf = @ \o ch.bytes, !.cps = Append(@, ch.cp),
                            !.ends = Append(@, Len(hist.buf) + Len(ch.bytes))]
    /\ UNCHANGED <<cx, regs, res>>

IntroText(len) ==
    /\ hist.phase = "input"
    /\ len <= Len(hist.buf)
    /\ \E r \in {_wikrt_alloc_text(cx, hist.buf, len)} :
           /\ cx' = r.cx
           /\ regs' = <<r.v>>
           /\ res' = [op |-> "intro_text", err |-> r.err, len |-> len, cx0 |-> cx]
           /\ hist' = [hist EXCEPT !.phase = "done"]

IntroBinary(nBytes) ==
    /\ hist.phase = "input"
    /\ nBytes <= Len(hist.buf)
    /\ \E r \in {_wikrt_alloc_binary(cx, hist.buf, nBytes)} :
           /\ cx' = r.cx
           /\ regs' = <<r.v>>
           /\ res' = [op |-> "intro_binary", err |-> r.err, len |-> nBytes, cx0 |-> cx]
           /\ hist' = [hist EXCEPT !.phase = "done"]

NextText ==
    \/ \E ch \in TextChars : AppendChar(ch)
    \/ \E len \in 0..(3 * MaxChars) : IntroText(len)
    \/ \E nBytes \in 0..(3 * MaxChars) : IntroBinary(nBytes)

SpecText == InitText /\ [][NextText]_vars

\* the addresses of the cells of the list v, in order
RECURSIVE ListCells(_, _, _)
ListCells(c, v, fuel) ==
    IF (fuel = 0) \/ (wikrt_vtag(v) # WIKRT_PL) \/ (wikrt_vaddr(v) = 0)
           \/ ~InArena(wikrt_vaddr(v), 2)
    THEN <<>>
    ELSE <<wikrt_vaddr(v)>> \o ListCells(c, Rd(c, wikrt_vaddr(v), 1), fuel - 1)

\* v is a list of Len(xs) cells that were free in c0, are distinct and live
\* in c, are referred to with tag PL, hold the small integers xs in order
\* and end in unit-in-right; nothing else was allocated and nothing freed
FreshList(c0, c, v, xs) ==
    LET cells == ListCells(c, v, Len(xs) + 1)
    IN  /\ Len(cells) = Len(xs)
        /\ \A i \in 1..Len(cells) :
              /\ IsFree(c0, cells[i])
              /\ ~IsFree(c, cells[i])
              /\ Rd(c, cells[i], 0) = wikrt_i2v(xs[i])
              /\ \A j \in 1..Len(cells) : (cells[i] = cells[j]) => (i = j)
        /\ IF xs = <<>> THEN (v = WIKRT_UNIT_INR) /\ (c = c0)
           ELSE Rd(c, cells[Len(cells)], 1) = WIKRT_UNIT_INR
        /\ c.ba = c0.ba + (WIKRT_CELLSIZE * Len(xs))
        /\ c.bf = c0.bf

\* the characters of the buffer that end within the first len bytes
CharsWithin(len) == {i \in 1..Len(hist.ends) : hist.ends[i] <= len}

\* the first len bytes end inside a character
CutInside(len) == (len # 0) /\ (\A i \in 1..Len(hist.ends) : hist.ends[i] # len)

\* C16: an intro_binary of n bytes that returns OK yields a list of n fresh
\* cells, referred to with tag PL, holding the bytes as small integers in
\* input order and ending in unit-in-right; an intro_text of n whole
\* codepoints that returns OK yields the same for the codepoints; for n = 0
\* the result is unit-in-right and the context is untouched.
C16_IntroList ==
    /\ ((res.op = "intro_binary") /\ (res.err = WIKRT_OK)) =>
          FreshList(res.cx0, cx, regs[1], SubSeq(hist.buf, 1, res.len))
    /\ ((res.op = "intro_text") /\ (res.err = WIKRT_OK) /\ ~CutInside(res.len)) =>
          FreshList(res.cx0, cx, regs[1],
                    SubSeq(hist.cps, 1, Cardinality(CharsWithin(res.len))))

\* C16 witness: a text of three codepoints, one of them of three bytes and
\* one of two, was introduced.
C16_Witness ==
    /\ res.op = "intro_text"
    /\ res.err = WIKRT_OK
    /\ Len(hist.cps) = 3
    /\ res.len = Len(hist.buf)
    /\ \E i, j \in 1..3 : (hist.cps[i] = 8594) /\ (hist.cps[j] = 233)

\* C17: an intro_text whose input, within the length given, ends inside a
\* UTF-8 sequence or holds a control character other than LF or the
\* replacement character returns INVAL.
C17_IntroTextInval ==
    (res.op = "intro_text") =>
        ((CutInside(res.len)
             \/ \E i \in CharsWithin(res.len) :
                   hist.cps[i] \in {9, 127, 65533})
         => (res.err = WIKRT_INVAL))

----------------------------------------------------------------------------
(* Specification SpecShm: NCx contexts of one context group allocate and    *)
(* free blocks.  cx holds the group's shared free list, its mutex (0 when   *)
(* free, else the context that holds it) and every context's local free     *)
(* list; regs holds every context's position in wikrt_alloc, the blocks it  *)
(* holds and the block it is reallocating.                                  *)

NCx == 2            \* contexts in the group
ShmPages == 2       \* pages of the group's arena
MaxOps == 4         \* most calls of wikrt_alloc, wikrt_realloc and wikrt_free

Cxs == 1..NCx
ArenaBytes == ShmPages * WIKRT_PAGESIZE

\* context i as the allocation API sees it, and the group after the API
\* has changed such a context
CxOf(i) == [fl |-> cx.fl[i], shm |-> cx.shm, ba |-> cx.ba[i], bf |-> cx.bf[i]]
SetCx(i, c) ==
    [cx EXCEPT !.fl[i] = c.fl, !.shm = c.shm, !.ba[i] = c.ba, !.bf[i] = c.bf]

\* pthread_mutex_lock(&(cxm->mutex)) returns once the mutex is free
wikrt_cxm_lock_mut(i) == TRUE
wikrt_cxm_lock(i) == cx.mutex = 0

InitShm ==
    /\ cx = [shm |-> <<<<WIKRT_CELLSIZE, ArenaBytes>>>>, mutex |-> 0,
             fl |-> [i \in Cxs |-> <<>>], ba |-> [i \in Cxs |-> 0],
             bf |-> [i \in Cxs |-> 0], n |-> 0]
    /\ regs = [i \in Cxs |-> [pc |-> "idle", sz |-> 0, held |-> {}, re |-> <<>>]]
    /\ res = [op |-> "none", by |-> 0, shm |-> FALSE, locked |-> FALSE]
    /\ hist = [i \in Cxs |-> [trace |-> <<>>, unlocks |-> 0]]

\* what a step of context i leaves in res and hist: whether it touched the
\* shared list, and whether i held the mutex when it did
Step(i, name, shm) ==
    /\ res' = [op |-> name, by |-> i, shm |-> shm, locked |-> (cx.mutex = i)]
    /\ hist' = [hist EXCEPT ![i].trace = Append(@, name)]

\* what the end of wikrt_alloc with result r leaves: to a caller that
\* asked for a new block of sz bytes (re = <<>>) the block, and to
\* wikrt_realloc growing the block re (its src and sz0) the new block with
\* the old one freed, or on failure the old block
AllocEnd(i, r, sz, re) ==
    IF ~r.ok THEN [cx |-> SetCx(i, r.cx), held |-> regs[i].held]
    ELSE IF re = <<>>
    THEN [cx |-> SetCx(i, r.cx), held |-> regs[i].held \cup {<<r.addr, sz>>}]
    ELSE [cx |-> SetCx(i, wikrt_free(r.cx, re[2], re[1])),
          held |-> (regs[i].held \ {re}) \cup {<<r.addr, sz>>}]

\* wikrt_alloc of sz bytes up to the call of wikrt_acquire_shared_memory
AllocBegin(i, sz, re, name) ==
    \E r \in {wikrt_alloc_local(CxOf(i), sz)} :
        \E e \in {AllocEnd(i, r, sz, re)} :
            /\ cx' = [e.cx EXCEPT !.n = @ + 1]
            /\ regs' = [regs EXCEPT ![i].pc = IF r.ok THEN "idle" ELSE "lock",
                                    ![i].sz = IF r.ok THEN 0 ELSE sz,
                                    ![i].held = e.held,
                                    ![i].re = IF r.ok THEN <<>> ELSE re]
            /\ res' = [op |-> name, by |-> i, shm |-> FALSE, locked |-> (cx.mutex = i)]
            /\ hist' = [hist EXCEPT ![i] = [trace |-> <<>>, unlocks |-> 0]]

AllocStart(i, sz0) ==
    /\ regs[i].pc = "idle"
    /\ cx.n < MaxOps
    /\ AllocBegin(i, WIKRT_CELLBUFF(sz0), <<>>, "alloc")

\* wikrt_realloc of a block the context holds, up to the call of
\* wikrt_acquire_shared_memory
Realloc(i, szf0) ==
    /\ regs[i].pc = "idle"
    /\ cx.n < MaxOps
    /\ \E b \in regs[i].held :
         \E szf \in {WIKRT_CELLBUFF(szf0)} :
           IF b[2] = szf THEN
               /\ cx' = [cx EXCEPT !.n = @ + 1]
               /\ regs' = regs
               /\ res' = [op |-> "realloc same", by |-> i, shm |-> FALSE,
                          locked |-> (cx.mutex = i)]
               /\ hist' = hist
           ELSE IF szf < b[2] THEN
               /\ cx' = [SetCx(i, wikrt_free(CxOf(i), b[2] - szf, b[1] + szf))
                           EXCEPT !.n = @ + 1]
               /\ regs' = [regs EXCEPT ![i].held = (@ \ {b}) \cup {<<b[1], szf>>}]
               /\ res' = [op |-> "realloc shrink", by |-> i, shm |-> FALSE,
                          locked |-> (cx.mutex = i)]
               /\ hist' = hist
           ELSE AllocBegin(i, szf, b, "realloc")

CxmLock(i) ==
    /\ regs[i].pc = "lock"
    /\ wikrt_cxm_lock(i)
    /\ cx' = [cx EXCEPT !.mutex = i]
    /\ regs' = [regs EXCEPT ![i].pc = "shm1"]
    /\ Step(i, "lock", FALSE)

\* the first wikrt_acquire_shm(cx, sz), with sz the page-rounded size
AcquireFirst(i) ==
    /\ regs[i].pc = "shm1"
    /\ \E r \in {wikrt_acquire_shm(CxOf(i), WIKRT_PAGEBUFF(regs[i].sz))} :
           /\ cx' = SetCx(i, r.cx)
           /\ regs' = [regs EXCEPT ![i].pc = IF r.ok THEN "unlock" ELSE "merge"]
           /\ Step(i, IF r.ok THEN "shm1 ok" ELSE "shm1 failed", TRUE)

\* wikrt_fl_merge(mem, &(cx->fl), &(cxm->fl)); wikrt_fl_coalesce(mem,
\* &(cxm->fl)); cx->fl = (wikrt_fl) { 0 }
MergeCoalesce(i) ==
    /\ regs[i].pc = "merge"
    /\ cx' = [cx EXCEPT !.shm = wikrt_fl_coalesce(wikrt_fl_merge(cx.fl[i], cx.shm)),
                        !.fl[i] = <<>>]
    /\ regs' = [regs EXCEPT ![i].pc = "shm2"]
    /\ Step(i, "merge", TRUE)

\* the second wikrt_acquire_shm(cx, sz)
AcquireSecond(i) ==
    /\ regs[i].pc = "shm2"
    /\ \E r \in {wikrt_acquire_shm(CxOf(i), WIKRT_PAGEBUFF(regs[i].sz))} :
           /\ cx' = SetCx(i, r.cx)
           /\ regs' = [regs EXCEPT ![i].pc = IF r.ok THEN "unlock" ELSE "takeall"]
           /\ Step(i, IF r.ok THEN "shm2 ok" ELSE "shm2 failed", TRUE)

\* a take-all that resets the shared list and merges nothing
TakeAll_mut(i) ==
    /\ regs[i].pc = "takeall"
    /\ cx' = [cx EXCEPT !.shm = <<>>]
    /\ regs' = [regs EXCEPT ![i].pc = "unlock"]
    /\ Step(i, "takeall", TRUE)

\* wikrt_fl_merge(mem, &(cxm->fl), &(cx->fl)); cxm->fl = (wikrt_fl) { 0 }
TakeAll(i) ==
    /\ regs[i].pc = "takeall"
    /\ cx' = [cx EXCEPT !.fl[i] = wikrt_fl_merge(cx.shm, cx.fl[i]), !.shm = <<>>]
    /\ regs' = [regs EXCEPT ![i].pc = "unlock"]
    /\ Step(i, "takeall", TRUE)

CxmUnlock(i) ==
    /\ regs[i].pc = "unlock"
    /\ cx' = [cx EXCEPT !.mutex = IF @ = i THEN 0 ELSE @]
    /\ regs' = [regs EXCEPT ![i].pc = "retry"]
    /\ res' = [op |-> "unlock", by |-> i, shm |-> FALSE, locked |-> (cx.mutex = i)]
    /\ hist' = [hist EXCEPT ![i].trace = Append(@, "unlock"), ![i].unlocks = @ + 1]

\* return wikrt_alloc_local(cx, sz, addr)
AllocRetry(i) ==
    /\ regs[i].pc = "retry"
    /\ \E r \in {wikrt_alloc_local(CxOf(i), regs[i].sz)} :
         \E e \in {AllocEnd(i, r, regs[i].sz, regs[i].re)} :
           /\ cx' = e.cx
           /\ regs' = [regs EXCEPT ![i].pc = "idle", ![i].sz = 0, ![i].held = e.held,
                                   ![i].re = <<>>]
           /\ res' = [op |-> IF regs[i].re = <<>>
                             THEN (IF r.ok THEN "alloc" ELSE "alloc failed")
                             ELSE (IF r.ok THEN "realloc" ELSE "realloc failed"),
                      by |-> i, shm |-> FALSE, locked |-> (cx.mutex = i)]
           /\ hist' = [hist EXCEPT ![i] = [trace |-> <<>>, unlocks |-> 0]]

\* wikrt_free of a block the context holds
FreeBlock(i) ==
    /\ regs[i].pc = "idle"
    /\ cx.n < MaxOps
    /\ \E b \in regs[i].held :
           /\ cx' = [SetCx(i, wikrt_free(CxOf(i), b[2], b[1])) EXCEPT !.n = @ + 1]
           /\ regs' = [regs EXCEPT ![i].held = @ \ {b}]
           /\ res' = [op |-> "free", by |-> i, shm |-> FALSE, locked |-> (cx.mutex = i)]
           /\ hist' = hist

NextShm ==
    \E i \in Cxs :
        \/ \E sz0 \in {WIKRT_CELLSIZE, WIKRT_PAGESIZE} : AllocStart(i, sz0)
        \/ \E szf0 \in {WIKRT_CELLSIZE, 2 * WIKRT_CELLSIZE} : Realloc(i, szf0)
        \/ CxmLock(i)
        \/ AcquireFirst(i)
        \/ MergeCoalesce(i)
        \/ AcquireSecond(i)
        \/ TakeAll(i)
        \/ CxmUnlock(i)
        \/ AllocRetry(i)
        \/ FreeBlock(i)

SpecShm == InitShm /\ [][NextShm]_vars

\* the bytes of a free list
RECURSIVE FlBytes(_)
FlBytes(fl) == IF fl = <<>> THEN 0 ELSE fl[1][2] + FlBytes(Tail(fl))

RECURSIVE SetBytes(_)
SetBytes(S) == IF S = {} THEN 0 ELSE LET b == CHOOSE x \in S : TRUE
                                     IN  b[2] + SetBytes(S \ {b})

\* the bytes the contexts 1..i have on their free lists and in their hands
RECURSIVE CxBytes(_)
CxBytes(i) ==
    IF i = 0 THEN 0
    ELSE FlBytes(cx.fl[i]) + SetBytes(regs[i].held) + CxBytes(i - 1)

\* the orders in which one call of wikrt_acquire_shared_memory may go
ShmPaths ==
    {<<"lock", "shm1 ok", "unlock">>,
     <<"lock", "shm1 failed", "merge", "shm2 ok", "unlock">>,
     <<"lock", "shm1 failed", "merge", "shm2 failed", "takeall", "unlock">>}

IsPrefix(t, p) == (Len(t) <= Len(p)) /\ (t = SubSeq(p, 1, Len(t)))

\* no two blocks of the list touch
Coalesced(fl) ==
    \A a, b \in 1..Len(fl) : fl[a][1] + fl[a][2] # fl[b][1]

\* C20: a context whose local allocation failed goes through lock, first
\* attempt on the shared list with the page-rounded size, on failure merge
\* of its local list into the shared list with coalescing and an empty local
\* list, second attempt, on failure the whole shared list moved to the local
\* list and an empty shared list, unlock, in this order and holding the
\* mutex from lock to unlock; it unlocks once; no step touches the shared
\* list without holding the mutex; no byte of the arena is lost or handed
\* out twice.
C20_SharedUnderMutex ==
    /\ res.shm => res.locked
    /\ (res.op = "unlock") => res.locked
    /\ \A i \in Cxs :
          /\ (regs[i].pc \in {"shm1", "merge", "shm2", "takeall", "unlock"}) =>
                ((cx.mutex = i) /\ (hist[i].unlocks = 0))
          /\ (regs[i].pc \in {"lock", "retry"}) => (cx.mutex # i)
          /\ (regs[i].pc = "retry") =>
                ((hist[i].unlocks = 1) /\ (hist[i].trace \in ShmPaths))
          /\ \E p \in ShmPaths : IsPrefix(hist[i].trace, p)
    /\ (res.op = "shm1 ok") \/ (res.op = "shm2 ok") =>
          \E k \in 1..Len(cx.fl[res.by]) :
              cx.fl[res.by][k][2] = WIKRT_PAGEBUFF(regs[res.by].sz)
    /\ (res.op = "merge") => ((cx.fl[res.by] = <<>>) /\ Coalesced(cx.shm))
    /\ (res.op = "takeall") => (cx.shm = <<>>)
    /\ FlBytes(cx.shm) + CxBytes(NCx) = ArenaBytes

\* C20 witness: a context has gone through all three stages and released
\* the mutex while another context waits for the mutex.
C20_Witness ==
    \E i, j \in Cxs :
        /\ regs[i].pc = "retry"
        /\ Len(hist[i].trace) = 6
        /\ regs[j].pc = "lock"

\* the blocks of the local free lists of the contexts 1..i, and every free
\* block of the group
RECURSIVE LocalFree(_)
LocalFree(i) == IF i = 0 THEN <<>> ELSE LocalFree(i - 1) \o cx.fl[i]

AllFree == cx.shm \o LocalFree(NCx)

Overlap(a, b) == (a[1] < b[1] + b[2]) /\ (b[1] < a[1] + a[2])

\* C21: the live allocations of the contexts of a group are pairwise
\* disjoint, no two free-list blocks (of one local list, of two local lists,
\* of a local list and the shared list) share a byte, and no free block
\* shares a byte with a live allocation; every block lies in the arena, the
\* blocks cover it, and each context's counters account for what it holds.
C21_Disjoint ==
    /\ \A F \in {AllFree} :
          /\ \A a, b \in 1..Len(F) : (a # b) => ~Overlap(F[a], F[b])
          /\ \A a \in 1..Len(F) :
                /\ F[a][1] >= WIKRT_CELLSIZE
                /\ F[a][1] + F[a][2] <= WIKRT_CELLSIZE + ArenaBytes
                /\ F[a][2] > 0
          /\ \A i \in Cxs : \A h \in regs[i].held :
                \A a \in 1..Len(F) : ~Overlap(F[a], h)
          /\ FlBytes(F) + CxBytes(NCx) - FlBytes(LocalFree(NCx)) = ArenaBytes
    /\ \A i \in Cxs : \A h \in regs[i].held :
          /\ \A j \in Cxs : \A g \in regs[j].held :
                (<<i, h>> # <<j, g>>) => ~Overlap(h, g)
          /\ (h[1] >= WIKRT_CELLSIZE) /\ (h[1] + h[2] <= WIKRT_CELLSIZE + ArenaBytes)
          /\ (h[2] > 0) /\ (h[1] % WIKRT_CELLSIZE = 0) /\ (h[2] % WIKRT_CELLSIZE = 0)
    /\ \A i \in Cxs : cx.ba[i] - cx.bf[i] = SetBytes(regs[i].held)

\* C21 witness: a realloc has moved a block while both contexts hold
\* blocks, a local list and the shared list hold free blocks, and the other
\* context is inside wikrt_acquire_shared_memory.
C21_Witness ==
    /\ res.op = "realloc"
    /\ \A i \in Cxs : regs[i].held # {}
    /\ cx.shm # <<>>
    /\ \E i \in Cxs : (i # res.by) /\ (cx.mutex = i) /\ (cx.fl[res.by] # <<>>)

\* what context i owns: its local free list and the blocks it holds
Dom(c, r, i) == {c.fl[i][k] : k \in 1..Len(c.fl[i])} \cup r[i].held

\* C22: a step of wikrt_free by context i (alone or as the shrinking
\* wikrt_realloc) adds the freed bytes to i's local list and to i's
\* ct_bytes_freed and changes nothing else: not the mutex, not the shared
\* list, no other context.  No step moves a byte from what one context owns
\* to what another owns, and a byte a context owns enters the shared list
\* only in the merge step of that context's wikrt_acquire_shared_memory.
C22_FreeStep ==
    /\ (res'.op \in {"free", "realloc shrink"}) =>
          /\ cx'.shm = cx.shm
          /\ cx'.mutex = cx.mutex
          /\ cx'.ba = cx.ba
          /\ \A j \in Cxs \ {res'.by} :
                /\ cx'.fl[j] = cx.fl[j]
                /\ cx'.bf[j] = cx.bf[j]
                /\ regs'[j] = regs[j]
          /\ cx'.bf[res'.by] - cx.bf[res'.by]
                = SetBytes(regs[res'.by].held) - SetBytes(regs'[res'.by].held)
          /\ FlBytes(cx'.fl[res'.by]) - FlBytes(cx.fl[res'.by])
                = SetBytes(regs[res'.by].held) - SetBytes(regs'[res'.by].held)
          /\ SetBytes(regs[res'.by].held) > SetBytes(regs'[res'.by].held)
    /\ \A i \in Cxs : \A D \in {Dom(cx, regs, i)} :
          /\ \A j \in Cxs \ {i} : \A g \in Dom(cx', regs', j) :
                \A b \in D : ~Overlap(b, g)
          /\ ((res'.op = "merge") /\ (res'.by = i))
             \/ \A k \in 1..Len(cx'.shm) : \A b \in D : ~Overlap(b, cx'.shm[k])

C22_FreeIsLocal == [][C22_FreeStep]_vars

\* C22 witness: a context has freed a block while another context holds
\* the mutex and the shared list holds free blocks.
C22_Witness ==
    /\ res.op = "free"
    /\ cx.shm # <<>>
    /\ \E j \in Cxs : (j # res.by) /\ (cx.mutex = j)

----------------------------------------------------------------------------
(* Specification SpecRealloc: one context allocates blocks, fills them,     *)
(* reallocates and frees them.  regs holds the blocks the caller has, each  *)
(* <<addr, sz>> with sz the size the caller asked for; hist counts the      *)
(* calls.                                                                   *)

MaxCalls == 4       \* most calls of wikrt_alloc, wikrt_realloc and wikrt_free

AllocSizes == {5, 120}
ReallocSizes == {8, 12, 24, 160}

\* the caller's data in a block: word k of the block of call n holds <<n, k>>
Fill(c, addr, sz, n) ==
    [c EXCEPT !.mem = [w \in DOMAIN @ |->
                         IF (addr \div 4 <= w) /\ (w < (addr + sz) \div 4)
                         THEN Word(n, w - (addr \div 4)) ELSE @[w]]]

InitRealloc ==
    /\ cx = EmptyCx
    /\ regs = {}
    /\ res = [op |-> "none", ok |-> TRUE]
    /\ hist = [n |-> 0]

MemAlloc(sz) ==
    /\ hist.n < MaxCalls
    /\ \E r \in {wikrt_alloc(cx, sz)} :
           /\ cx' = IF r.ok THEN Fill(r.cx, r.addr, WIKRT_CELLBUFF(sz), hist.n + 1)
                    ELSE r.cx
           /\ regs' = IF r.ok THEN regs \cup {<<r.addr, sz>>} ELSE regs
           /\ res' = [op |-> "alloc", ok |-> r.ok]
    /\ hist' = [n |-> hist.n + 1]

MemRealloc(szf) ==
    /\ hist.n < MaxCalls
    /\ \E b \in regs :
         \E r \in {wikrt_realloc(cx, b[2], b[1], szf)} :
           /\ cx' = r.cx
           /\ regs' = (regs \ {b}) \cup {<<r.addr, IF r.ok THEN szf ELSE b[2]>>}
           /\ res' = [op |-> "realloc", ok |-> r.ok, b |-> b, szf |-> szf,
                      addr |-> r.addr, cx0 |-> cx, held0 |-> regs]
    /\ hist' = [n |-> hist.n + 1]

MemFree ==
    /\ hist.n < MaxCalls
    /\ \E b \in regs :
           /\ cx' = wikrt_free(cx, b[2], b[1])
           /\ regs' = regs \ {b}
           /\ res' = [op |-> "free", ok |-> TRUE]
    /\ hist' = [n |-> hist.n + 1]

NextRealloc ==
    \/ \E sz \in AllocSizes : MemAlloc(sz)
    \/ \E szf \in ReallocSizes : MemRealloc(szf)
    \/ MemFree

SpecRealloc == InitRealloc /\ [][NextRealloc]_vars

\* the words of the n bytes at addr
BlockWords(addr, n) == {w \in 0..(MemWords - 1) : (addr \div 4 <= w) /\ (w < (addr + n) \div 4)}

\* the n bytes at addr are all on a free list of c, or none of them is
AllFreeIn(c, addr, n) == \A w \in BlockWords(addr, n) : IsFree(c, 4 * w)
NoneFreeIn(c, addr, n) == \A w \in BlockWords(addr, n) : ~IsFree(c, 4 * w)

\* the n bytes at a in c are the n bytes at a0 in c0
SameBytes(c, a, c0, a0, n) ==
    \A k \in 0..((n \div 4) - 1) : c.mem[(a \div 4) + k] = c0.mem[(a0 \div 4) + k]

\* C23: wikrt_realloc of a block of sz0 bytes at addr to szf bytes, both
\* rounded up to whole cells: with equal rounded sizes nothing changes; a
\* shrink frees exactly the bytes from addr + szf to addr + sz0 and keeps the
\* address; a growth allocates a block that was free, copies the first sz0
\* bytes into it, frees the old block and stores the new address; a growth
\* whose allocation fails returns false with the old block allocated, its
\* contents and the address unchanged.  The other blocks of the caller keep
\* their contents and stay allocated.
C23_Realloc ==
    (res.op = "realloc") =>
      \A R0 \in {WIKRT_CELLBUFF(res.b[2])} : \A Rf \in {WIKRT_CELLBUFF(res.szf)} :
        /\ (R0 = Rf) => (res.ok /\ (res.addr = res.b[1]) /\ (cx = res.cx0))
        /\ (Rf < R0) =>
              /\ res.ok /\ (res.addr = res.b[1])
              /\ cx.fl = <<<<res.b[1] + Rf, R0 - Rf>>>> \o res.cx0.fl
              /\ cx.bf = res.cx0.bf + (R0 - Rf)
              /\ cx.ba = res.cx0.ba
              /\ cx.shm = res.cx0.shm
              /\ cx.mem = res.cx0.mem
              /\ NoneFreeIn(cx, res.b[1], Rf)
        /\ ((Rf > R0) /\ res.ok) =>
              /\ res.addr # res.b[1]
              /\ AllFreeIn(res.cx0, res.addr, Rf)
              /\ NoneFreeIn(cx, res.addr, Rf)
              /\ InArena(res.addr, Rf \div 4)
              /\ SameBytes(cx, res.addr, res.cx0, res.b[1], R0)
              /\ AllFreeIn(cx, res.b[1], R0)
              /\ cx.ba = res.cx0.ba + Rf
              /\ cx.bf = res.cx0.bf + R0
        /\ ((Rf > R0) /\ ~res.ok) =>
              /\ res.addr = res.b[1]
              /\ NoneFreeIn(cx, res.b[1], R0)
              /\ cx.mem = res.cx0.mem
              /\ cx.ba = res.cx0.ba
              /\ cx.bf = res.cx0.bf
        /\ \A g \in res.held0 \ {res.b} :
              /\ g \in regs
              /\ NoneFreeIn(cx, g[1], WIKRT_CELLBUFF(g[2]))
              /\ SameBytes(cx, g[1], res.cx0, g[1], WIKRT_CELLBUFF(g[2]))

\* C23 witness: a growth has failed while the caller holds another block,
\* after an earlier realloc of the same block succeeded.
C23_Witness ==
    /\ res.op = "realloc"
    /\ ~res.ok
    /\ Cardinality(regs) = 2
    /\ res.b[2] \in ReallocSizes

----------------------------------------------------------------------------
(* Specification SpecDiv: the caller introduces a dividend and a divisor,   *)
(* both small integers, and divides.  regs holds the value words, the       *)
(* divisor first; after the division the remainder first, then the          *)
(* quotient.                                                                *)

DivRange == 12      \* dividends and divisors from -DivRange to DivRange

Abs(n) == IF n < 0 THEN 0 - n ELSE n

\* a / b and a % b of C, which round towards zero
CDiv(a, b) == IF (a < 0) = (b < 0) THEN Abs(a) \div Abs(b) ELSE 0 - (Abs(a) \div Abs(b))
CRem(a, b) == a - (b * CDiv(a, b))

\* a division that rounds towards zero
wikrt_int_div_mut(a, b) ==
    IF b = 0 THEN [err |-> WIKRT_TYPE_ERROR, q |-> 0, r |-> 0]
    ELSE [err |-> WIKRT_OK, q |-> CDiv(a, b), r |-> CRem(a, b)]

\* floor division: the quotient is rounded down, so that a remainder that
\* is not zero takes the sign of the divisor
wikrt_int_div(a, b) ==
    IF b = 0 THEN [err |-> WIKRT_TYPE_ERROR, q |-> 0, r |-> 0]
    ELSE IF (CRem(a, b) # 0) /\ ((CRem(a, b) < 0) # (b < 0))
    THEN [err |-> WIKRT_OK, q |-> CDiv(a, b) - 1, r |-> CRem(a, b) + b]
    ELSE [err |-> WIKRT_OK, q |-> CDiv(a, b), r |-> CRem(a, b)]

Dividends ==
    ((0 - DivRange)..DivRange)
    \cup {WIKRT_SMALLINT_MIN, WIKRT_SMALLINT_MAX, WIKRT_BIGINT_DIGIT, 0 - WIKRT_BIGINT_DIGIT}
Divisors ==
    ((0 - DivRange)..DivRange) \cup {WIKRT_SMALLINT_MIN, WIKRT_SMALLINT_MAX}

InitDiv ==
    \E a \in Dividends : \E b \in Divisors :
        /\ cx = EmptyCx
        /\ regs = <<wikrt_i2v(b), wikrt_i2v(a)>>
        /\ res = [op |-> "none", err |-> WIKRT_OK]
        /\ hist = [a |-> a, b |-> b]

IntDiv ==
    /\ res.op = "none"
    /\ \E d \in {wikrt_int_div(wikrt_v2i(regs[2]), wikrt_v2i(regs[1]))} :
           /\ regs' = IF d.err = WIKRT_OK THEN <<wikrt_i2v(d.r), wikrt_i2v(d.q)>> ELSE regs
           /\ res' = [op |-> "int_div", err |-> d.err]
    /\ UNCHANGED <<cx, hist>>

NextDiv == IntDiv

SpecDiv == InitDiv /\ [][NextDiv]_vars

\* C24: for a dividend a and a divisor b that is not zero, int_div yields
\* q and r with a = b * q + r, |r| < |b| and r zero or of the sign of b
\* (11/3 = (3, 2), -11/3 = (-4, 1), 11/-3 = (-4, -1), -11/-3 = (3, -2));
\* with b = 0 it fails with TYPE_ERROR.
C24_FloorDiv ==
    (res.op = "int_div") =>
        IF hist.b = 0 THEN res.err = WIKRT_TYPE_ERROR
        ELSE /\ res.err = WIKRT_OK
             /\ \A q \in {wikrt_v2i(regs[2])} : \A r \in {wikrt_v2i(regs[1])} :
                   /\ hist.a = (hist.b * q) + r
                   /\ Abs(r) < Abs(hist.b)
                   /\ (r = 0) \/ ((r < 0) = (hist.b < 0))
                   /\ (<<hist.a, hist.b>> = <<11, 3>>) => (<<q, r>> = <<3, 2>>)
                   /\ (<<hist.a, hist.b>> = <<0 - 11, 3>>) => (<<q, r>> = <<0 - 4, 1>>)
                   /\ (<<hist.a, hist.b>> = <<11, 0 - 3>>) => (<<q, r>> = <<0 - 4, 0 - 1>>)
                   /\ (<<hist.a, hist.b>> = <<0 - 11, 0 - 3>>) => (<<q, r>> = <<3, 0 - 2>>)

\* C24 witness: -11 has been divided by 3.
C24_Witness ==
    (res.op = "int_div") /\ (hist.a = 0 - 11) /\ (hist.b = 3) /\ (res.err = WIKRT_OK)

----------------------------------------------------------------------------
(* Distribution and factoring of sums over the stack (regs, top first).    *)
(* wikrt_sum_distrib and wikrt_sum_factor are exercised by testSuite.c and *)
(* built here from the cell primitives of wikrt.c: distrib takes the top a *)
(* and the sum under it to the sum of the pair, as test_sum_distrib reads  *)
(* it back; factor takes a sum of a pair to two sums of the same           *)
(* direction, as test_sum_factor reads them back with two unwrap_sum.      *)

MaxDF == 2                   \* most distrib / factor calls on one stack

wikrt_sum_distrib(c, st) ==
    IF Len(st) < 2 THEN [err |-> WIKRT_TYPE_ERROR, st |-> st, cx |-> c]
    ELSE The({ IF s.err # WIKRT_OK THEN [err |-> s.err, st |-> st, cx |-> c]
               ELSE The({ IF p.err # WIKRT_OK THEN [err |-> p.err, st |-> st, cx |-> p.cx]
                          ELSE The({ [err |-> w.err, st |-> <<w.v>> \o Tail(Tail(st)), cx |-> w.cx] :
                                     w \in {_wikrt_alloc_sum(p.cx, s.inRight, p.v)} }) :
                          p \in {_wikrt_alloc_prod(s.cx, st[1], s.v)} }) :
               s \in {_wikrt_split_sum(c, st[2])} })

wikrt_sum_factor(c, st) ==
    IF Len(st) < 1 THEN [err |-> WIKRT_TYPE_ERROR, st |-> st, cx |-> c]
    ELSE The({ IF s.err # WIKRT_OK THEN [err |-> s.err, st |-> st, cx |-> c]
               ELSE The({ IF p.err # WIKRT_OK THEN [err |-> p.err, st |-> st, cx |-> c]
                          ELSE The({ The({ [err |-> IF wa.err # WIKRT_OK THEN wa.err ELSE wb.err,
                                            st |-> <<wa.v, wb.v>> \o Tail(st), cx |-> wb.cx] :
                                           wb \in {_wikrt_alloc_sum(wa.cx, s.inRight, p.snd)} }) :
                                     wa \in {_wikrt_alloc_sum(p.cx, s.inRight, p.fst)} }) :
                          p \in {_wikrt_split_prod(s.cx, s.v)} }) :
               s \in {_wikrt_split_sum(c, st[1])} })

\* the values the stack is built from: 42, 11, unit, a pair, a sum
DFKinds == 1..5
DFValue(c, k) ==
    CASE k = 1 -> [err |-> WIKRT_OK, set |-> TRUE, v |-> wikrt_i2v(42), cx |-> c]
      [] k = 2 -> [err |-> WIKRT_OK, set |-> TRUE, v |-> wikrt_i2v(11), cx |-> c]
      [] k = 3 -> [err |-> WIKRT_OK, set |-> TRUE, v |-> WIKRT_UNIT, cx |-> c]
      [] k = 4 -> _wikrt_alloc_prod(c, WIKRT_UNIT, wikrt_i2v(4))
      [] k = 5 -> _wikrt_alloc_sum(c, TRUE, wikrt_i2v(4))

DecodeStack(c, st) == [i \in 1..Len(st) |-> Decode(c, st[i], DecodeFuel)]

\* test_sum_distrib_b: intro a, wrap_sum, intro b; test_sum_factor_b:
\* intro a, intro b, assocl, wrap_sum
InitDF ==
    \E ka \in DFKinds, kb \in DFKinds, inR \in BOOLEAN, pairFirst \in BOOLEAN :
        \E a \in {DFValue(EmptyCx, ka)} : \E b \in {DFValue(a.cx, kb)} :
            \E st \in { IF pairFirst
                        THEN The({ The({ [st |-> <<w.v>>, cx |-> w.cx] :
                                         w \in {_wikrt_alloc_sum(p.cx, inR, p.v)} }) :
                                   p \in {_wikrt_alloc_prod(b.cx, b.v, a.v)} })
                        ELSE The({ [st |-> <<b.v, w.v>>, cx |-> w.cx] :
                                   w \in {_wikrt_alloc_sum(b.cx, inR, a.v)} }) } :
                /\ cx = st.cx
                /\ regs = st.st
                /\ res = [op |-> "none", err |-> WIKRT_OK]
                /\ hist = [v0 |-> DecodeStack(st.cx, st.st), ops |-> <<>>, inR |-> inR,
                           a |-> Decode(a.cx, a.v, DecodeFuel),
                           b |-> Decode(b.cx, b.v, DecodeFuel)]

SumDistrib ==
    /\ Len(hist.ops) < MaxDF
    /\ Len(regs) = 2
    /\ \E r \in {wikrt_sum_distrib(cx, regs)} :
           /\ cx' = r.cx
           /\ regs' = r.st
           /\ res' = [op |-> "sum_distrib", err |-> r.err]
           /\ hist' = [hist EXCEPT !.ops = Append(@, "distrib")]

SumFactor ==
    /\ Len(hist.ops) < MaxDF
    /\ Len(regs) = 1
    /\ \E r \in {wikrt_sum_factor(cx, regs)} :
           /\ cx' = r.cx
           /\ regs' = r.st
           /\ res' = [op |-> "sum_factor", err |-> r.err]
           /\ hist' = [hist EXCEPT !.ops = Append(@, "factor")]

NextDF == SumDistrib \/ SumFactor

SpecDF == InitDF /\ [][NextDF]_vars

----------------------------------------------------------------------------
(* The block parser (wikrt_parse.c), one character per step.               *)
(* Here cx is what the parser keeps in the context: the error flag, the    *)
(* (reversed) list of operators under construction, the stack of lists it  *)
(* returns to, and the chunks of the text literal being read; regs is the  *)
(* wikrt_parse_state. Steps after the first error are not taken: the       *)
(* error stays set and wikrt_fini_parse reports it whatever they do.       *)

MaxParse == 5                \* most characters of a freely chosen input

WIKRT_PARSE_OP == 0
WIKRT_PARSE_TXT == 1
WIKRT_PARSE_TXT_LF == 2
WIKRT_PARSE_TOK == 3
WIKRT_PARSE_BUFFSZ == WIKRT_CELLSIZE * 1024
WIKRT_TOK_BUFFSZ == 64

utf8_writecp_size(cp) ==
    IF cp < 128 THEN 1 ELSE IF cp < 2048 THEN 2 ELSE IF cp < 65536 THEN 3 ELSE 4

utf8_writecp(cp) ==
    CASE cp < 128 -> <<cp>>
      [] (cp >= 128) /\ (cp < 2048) -> <<192 + (cp \div 64), 128 + (cp % 64)>>
      [] (cp >= 2048) /\ (cp < 65536) ->
            <<224 + (cp \div 4096), 128 + ((cp \div 64) % 64), 128 + (cp % 64)>>
      [] OTHER -> <<240 + (cp \div 262144), 128 + ((cp \div 4096) % 64),
                    128 + ((cp \div 64) % 64), 128 + (cp % 64)>>

\* the ASCII characters of wikrt_abc2op_ascii_table:
\* l r w z v c L R W Z V C ^ % SP LF $ o ' k f # 0..9 + * - Q G ? D F M K
AbcOps ==
    {108, 114, 119, 122, 118, 99, 76, 82, 87, 90, 86, 67, 94, 37, 32, 10,
     36, 111, 39, 107, 102, 35, 43, 42, 45, 81, 71, 63, 68, 70, 77, 75} \cup (48..57)
wikrt_cp_to_op(cp) == IF (cp < 128) /\ (cp \in AbcOps) THEN cp ELSE 0

Reverse(s) == [i \in 1..Len(s) |-> s[Len(s) + 1 - i]]

\* wikrt_mem_reserve(cx, sz): whether sz bytes can be had; when they cannot
\* the context is in error
wikrt_mem_reserve(c, sz) == ~c.full
ReserveFailed(c) == [c EXCEPT !.err = TRUE]

\* the sanity check of wikrt_flush_parse_text, which aborts the process
\* when it fails
FlushSane(p) ==
    (p.charct <= p.bytect) /\ (p.bytect <= 65535) /\ (p.bytect <= 4 * p.charct)

wikrt_flush_parse_text(c, p) ==
    IF p.bytect = 0 THEN [cx |-> c, p |-> p]
    ELSE [cx |-> IF wikrt_mem_reserve(c, WIKRT_CELLBUFF(p.bytect) + (2 * WIKRT_CELLSIZE))
                 THEN [c EXCEPT !.texts = <<[charct |-> p.charct, bytes |-> p.buff]>> \o @]
                 ELSE ReserveFailed(c),
          p |-> [p EXCEPT !.bytect = 0, !.charct = 0, !.buff = <<>>]]

\* a write that never flushes
wikrt_parser_write_char_mut(c, p, cp) ==
    [cx |-> c,
     p |-> [p EXCEPT !.charct = @ + 1, !.bytect = @ + utf8_writecp_size(cp),
                     !.buff = @ \o utf8_writecp(cp)]]

wikrt_parser_write_char(c, p, cp) ==
    The({ IF q.bytect >= WIKRT_PARSE_BUFFSZ - 4 THEN wikrt_flush_parse_text(c, q)
          ELSE [cx |-> c, p |-> q] :
          q \in {[p EXCEPT !.charct = @ + 1, !.bytect = @ + utf8_writecp_size(cp),
                           !.buff = @ \o utf8_writecp(cp)]} })

SetError(c, p) == [cx |-> [c EXCEPT !.err = TRUE], p |-> p]

\* (item * (ops * (stack * e))) -> ((item : ops) * (stack * e)), the list
\* being the one suspended last
ConsOnParent(c, item) ==
    [c EXCEPT !.ops = <<item>> \o Head(c.stack), !.stack = Tail(@), !.texts = <<>>]

wikrt_intro_optok(c, tok, sz) ==
    IF ~((0 < sz) /\ (sz < WIKRT_TOK_BUFFSZ)) THEN [ok |-> FALSE, cx |-> [c EXCEPT !.err = TRUE]]
    ELSE IF ~wikrt_mem_reserve(c, WIKRT_CELLBUFF(4 + sz) + WIKRT_CELLSIZE)
    THEN [ok |-> FALSE, cx |-> ReserveFailed(c)]
    ELSE [ok |-> TRUE, cx |-> [c EXCEPT !.ops = <<[k |-> "tok", bytes |-> SubSeq(tok, 1, sz)]>> \o @]]

wikrt_intro_op(c, op) ==
    IF op = 0 THEN [ok |-> FALSE, cx |-> [c EXCEPT !.err = TRUE]]
    ELSE IF ~wikrt_mem_reserve(c, WIKRT_CELLSIZE) THEN [ok |-> FALSE, cx |-> ReserveFailed(c)]
    ELSE [ok |-> TRUE, cx |-> [c EXCEPT !.ops = <<[k |-> "op", op |-> op]>> \o @]]

wikrt_step_parse_char(c, p, cp) ==
    CASE p.type = WIKRT_PARSE_TOK ->
            IF cp = 125 THEN
                The({ IF ~r.ok THEN [cx |-> r.cx, p |-> p]
                      ELSE [cx |-> r.cx, p |-> [p EXCEPT !.type = WIKRT_PARSE_OP]] :
                      r \in {wikrt_intro_optok(c, p.buff, p.bytect)} })
            ELSE IF wikrt_token_char(cp) /\ (p.bytect + utf8_writecp_size(cp) < WIKRT_TOK_BUFFSZ)
                 THEN [cx |-> c,
                       p |-> [p EXCEPT !.buff = @ \o utf8_writecp(cp), !.charct = @ + 1,
                                       !.bytect = @ + utf8_writecp_size(cp)]]
                 ELSE SetError(c, p)
      [] p.type = WIKRT_PARSE_TXT_LF ->
            IF cp = 32 THEN
                The({ [cx |-> w.cx, p |-> [w.p EXCEPT !.type = WIKRT_PARSE_TXT]] :
                      w \in {wikrt_parser_write_char(c, p, 10)} })
            ELSE IF cp = 126 THEN
                The({ [cx |-> ConsOnParent(f.cx, [k |-> "text", chunks |-> Reverse(f.cx.texts)]),
                       p |-> [f.p EXCEPT !.type = WIKRT_PARSE_OP]] :
                      f \in {wikrt_flush_parse_text(c, p)} })
            ELSE SetError(c, p)
      [] p.type = WIKRT_PARSE_TXT ->
            IF cp = 10 THEN [cx |-> c, p |-> [p EXCEPT !.type = WIKRT_PARSE_TXT_LF]]
            ELSE IF wikrt_text_char(cp) THEN wikrt_parser_write_char(c, p, cp)
            ELSE SetError(c, p)
      [] p.type = WIKRT_PARSE_OP ->
            IF ~wikrt_mem_reserve(c, 2 * WIKRT_CELLSIZE) THEN [cx |-> ReserveFailed(c), p |-> p]
            ELSE IF cp = 91 THEN
                [cx |-> [c EXCEPT !.stack = <<c.ops>> \o @, !.ops = <<>>],
                 p |-> [p EXCEPT !.depth = @ + 1, !.type = WIKRT_PARSE_OP]]
            ELSE IF cp = 93 THEN
                IF p.depth < 1 THEN SetError(c, p)
                ELSE [cx |-> ConsOnParent(c, [k |-> "block", ops |-> Reverse(c.ops)]),
                      p |-> [p EXCEPT !.depth = @ - 1, !.type = WIKRT_PARSE_OP]]
            ELSE IF cp = 123 THEN
                [cx |-> c,
                 p |-> [p EXCEPT !.type = WIKRT_PARSE_TOK, !.bytect = 0, !.charct = 0,
                                 !.buff = <<>>]]
            ELSE IF cp = 34 THEN
                [cx |-> [c EXCEPT !.stack = <<c.ops>> \o @, !.ops = <<>>, !.texts = <<>>],
                 p |-> [p EXCEPT !.type = WIKRT_PARSE_TXT, !.bytect = 0, !.charct = 0,
                                 !.buff = <<>>]]
            ELSE [cx |-> wikrt_intro_op(c, wikrt_cp_to_op(cp)).cx, p |-> p]

\* a finish that wraps the list as it was built
wikrt_fini_parse_mut(c, p) ==
    IF ~((p.depth = 0) /\ (p.type = WIKRT_PARSE_OP) /\ ~c.err) THEN [c EXCEPT !.err = TRUE]
    ELSE [c EXCEPT !.ops = <<[k |-> "block", ops |-> c.ops]>>]

wikrt_fini_parse(c, p) ==
    IF ~((p.depth = 0) /\ (p.type = WIKRT_PARSE_OP) /\ ~c.err) THEN [c EXCEPT !.err = TRUE]
    ELSE [c EXCEPT !.ops = <<[k |-> "block", ops |-> Reverse(c.ops)]>>]

\* the strings of test_valid_token
Arrows4 == <<226, 134, 144, 226, 134, 145, 226, 134, 146, 226, 134, 147>>
Arrows21 == Arrows4 \o Arrows4 \o Arrows4 \o Arrows4 \o Arrows4 \o <<226, 134, 144>>
TestTokens ==
    {<<102, 111, 111>>, <<104, 101, 108, 108, 111, 32, 119, 111, 114, 108, 100>>,
     <<60, 62>>, <<46, 58, 44, 59, 124>>, <<34>>, <<64>>, <<39>>,
     <<120, 226, 134, 146, 121, 226, 134, 146, 122, 46, 206, 186, 206, 187, 206, 188,
       206, 189, 206, 190, 206, 191, 207, 128, 207, 129, 207, 130>>,
     <<123, 102, 111, 111, 125>>, <<102, 111, 111, 10, 98, 97, 114>>, <<>>,
     [k \in 1..63 |-> 48 + (k % 10)], [k \in 1..64 |-> 48 + (k % 10)],
     Arrows21, Arrows21 \o <<122>>}

\* further tokens: TAB, DEL, U+FFFD, '}' inside, 62 bytes and a two-byte
\* character that would end at byte 64
MoreTokens ==
    {<<58, 9>>, <<58, 127>>, <<239, 191, 189>>, <<97, 125>>,
     [k \in 1..62 |-> 48 + (k % 10)] \o <<195, 169>>,
     [k \in 1..61 |-> 48 + (k % 10)] \o <<195, 169>>}

\* the characters of a freely chosen input:
\* '"' v LF SP '~' TAB U+FFFD '{' '}' '[' ']'
ParseChars ==
    {<<34>>, <<118>>, <<10>>, <<32>>, <<126>>, <<9>>, <<239, 191, 189>>,
     <<123>>, <<125>>, <<91>>, <<93>>}

\* wikrt_intro_parse, with the input the text holds: a token in braces,
\* or characters chosen one by one
InitParseWith(free, tok) ==
    /\ cx = [err |-> FALSE, ops |-> <<>>, stack |-> <<>>, texts |-> <<>>, full |-> FALSE]
    /\ regs = [type |-> WIKRT_PARSE_OP, depth |-> 0, bytect |-> 0, charct |-> 0,
               buff |-> <<>>]
    /\ res = [op |-> "none"]
    /\ hist = [free |-> free, tok |-> tok, n |-> 0, done |-> FALSE,
               rest |-> IF free THEN <<>> ELSE <<123>> \o tok \o <<125>>,
               body |-> <<>>, ops0 |-> <<>>, inp |-> <<>>, opens |-> 0, closes |-> 0]

InitParse ==
    \/ InitParseWith(TRUE, <<>>)
    \/ \E tok \in TestTokens \cup MoreTokens : InitParseWith(FALSE, tok)

\* the characters the input can continue with
NextChars ==
    IF hist.done \/ cx.err THEN {}
    ELSE IF hist.free THEN (IF hist.n < MaxParse THEN ParseChars ELSE {})
    ELSE IF hist.rest = <<>> THEN {}
    ELSE {SubSeq(hist.rest, 1, utf8_step(hist.rest).n)}

\* one round of the loop of wikrt_step_parse
StepParse(ch) ==
    \E u \in {utf8_step(ch)} : \E r \in {wikrt_step_parse_char(cx, regs, u.cp)} :
        /\ cx' = r.cx
        /\ regs' = r.p
        /\ res' = [op |-> "char", cp |-> u.cp, p0 |-> regs, cx0 |-> cx]
        /\ hist' = [hist EXCEPT !.n = @ + 1,
                                !.rest = SubSeq(@, Len(ch) + 1, Len(@)),
                                !.body = IF regs.type = WIKRT_PARSE_OP THEN <<>>
                                         ELSE Append(@, u.cp),
                                !.ops0 = IF regs.type = WIKRT_PARSE_OP THEN cx.ops ELSE @,
                                !.inp = @ \o ch,
                                !.opens = IF (regs.type = WIKRT_PARSE_OP) /\ (u.cp = 91)
                                          THEN @ + 1 ELSE @,
                                !.closes = IF (regs.type = WIKRT_PARSE_OP) /\ (u.cp = 93)
                                           THEN @ + 1 ELSE @]

ParseTok == (regs.type = WIKRT_PARSE_TOK) /\ (\E ch \in NextChars : StepParse(ch))
ParseTxtLf == (regs.type = WIKRT_PARSE_TXT_LF) /\ (\E ch \in NextChars : StepParse(ch))
ParseTxt == (regs.type = WIKRT_PARSE_TXT) /\ (\E ch \in NextChars : StepParse(ch))
ParseOp == (regs.type = WIKRT_PARSE_OP) /\ (\E ch \in NextChars : StepParse(ch))

FiniParse ==
    /\ ~hist.done
    /\ hist.free \/ (hist.rest = <<>>) \/ cx.err
    /\ cx' = wikrt_fini_parse(cx, regs)
    /\ res' = [op |-> "fini", p0 |-> regs, cx0 |-> cx]
    /\ hist' = [hist EXCEPT !.done = TRUE]
    /\ UNCHANGED regs

\* the strings test_valid_token expects to be accepted
TestAccept ==
    TestTokens \ {<<123, 102, 111, 111, 125>>, <<102, 111, 111, 10, 98, 97, 114>>, <<>>,
                  [k \in 1..64 |-> 48 + (k % 10)], Arrows21 \o <<122>>}

\* the index i starts a character of s
CharStart(s, i) == ~((s[i] >= 128) /\ (s[i] <= 191))

wikrt_valid_token(s) ==
    /\ (0 < Len(s)) /\ (Len(s) < WIKRT_TOK_BUFFSZ)
    /\ \A i \in 1..Len(s) :
           \E u \in {utf8_step(SubSeq(s, i, Len(s)))} :
               IF CharStart(s, i) THEN u.ok /\ wikrt_token_char(u.cp)
               ELSE (i > 1)

\* the parse of '{' tok '}' has given the block of the one token tok
ParsedToken(tok) ==
    ~cx.err /\ (hist.rest = <<>>) /\ (cx.ops = <<[k |-> "block", ops |-> <<[k |-> "tok", bytes |-> tok]>>]>>)

\* test_valid_token_str on the token that was parsed
TestValidToken ==
    /\ hist.done /\ ~hist.free /\ (res.op = "fini")
    /\ res' = [op |-> "valid_token", ok |-> wikrt_valid_token(hist.tok),
               parsed |-> ParsedToken(hist.tok)]
    /\ UNCHANGED <<cx, regs, hist>>

NextParse == ParseTok \/ ParseTxtLf \/ ParseTxt \/ ParseOp \/ FiniParse \/ TestValidToken

SpecParse == InitParse /\ [][NextParse]_vars

\* the bytes of the chunks of a text, in order
RECURSIVE ChunkBytes(_)
ChunkBytes(chunks) ==
    IF chunks = <<>> THEN <<>> ELSE Head(chunks).bytes \o ChunkBytes(Tail(chunks))

\* the literal read so far: the flushed chunks and the parse buffer
Lit(c, p) == ChunkBytes(Reverse(c.texts)) \o p.buff

\* the text a literal's body stands for: LF SP is LF, LF ~ ends it
RECURSIVE Unescape(_)
Unescape(s) ==
    IF s = <<>> THEN <<>>
    ELSE IF Head(s) = 10
         THEN (IF (Len(s) >= 2) /\ (s[2] = 32)
               THEN <<10>> \o Unescape(SubSeq(s, 3, Len(s))) ELSE <<>>)
         ELSE utf8_writecp(Head(s)) \o Unescape(Tail(s))

\* C26: in the block parser, after an opening '"' every text character is
\* appended to the literal; a line feed is appended only when the next
\* character is a space (LF SP gives exactly one LF, the space is dropped);
\* LF '~' ends the literal, puts one text opval on the current list of
\* operators and returns the parser to the operator state; LF followed by
\* anything else, and a control character other than LF or the replacement
\* character in the body, put the parse in error.
C26_TextLiteral ==
    (res.op = "char") =>
        \A p0 \in {res.p0} : \A c0 \in {res.cx0} : \A cp \in {res.cp} :
            /\ ((p0.type = WIKRT_PARSE_OP) /\ (cp = 34)) =>
                   (regs.type = WIKRT_PARSE_TXT) /\ (Lit(cx, regs) = <<>>) /\ ~cx.err
            /\ ((p0.type = WIKRT_PARSE_TXT) /\ (cp = 10)) =>
                   /\ regs.type = WIKRT_PARSE_TXT_LF
                   /\ Lit(cx, regs) = Lit(c0, p0)
                   /\ ~cx.err
            /\ ((p0.type = WIKRT_PARSE_TXT) /\ (cp # 10)) =>
                   IF isControlChar(cp) \/ isReplacementChar(cp) THEN cx.err
                   ELSE /\ regs.type = WIKRT_PARSE_TXT
                        /\ Lit(cx, regs) = Lit(c0, p0) \o utf8_writecp(cp)
                        /\ regs.charct = p0.charct + 1
                        /\ ~cx.err
            /\ ((p0.type = WIKRT_PARSE_TXT_LF) /\ (cp = 32)) =>
                   /\ regs.type = WIKRT_PARSE_TXT
                   /\ Lit(cx, regs) = Lit(c0, p0) \o <<10>>
                   /\ ~cx.err
            /\ ((p0.type = WIKRT_PARSE_TXT_LF) /\ (cp = 126)) =>
                   /\ regs.type = WIKRT_PARSE_OP
                   /\ regs.depth = p0.depth
                   /\ ~cx.err
                   /\ Len(cx.ops) = Len(hist.ops0) + 1
                   /\ Tail(cx.ops) = hist.ops0
                   /\ Head(cx.ops).k = "text"
                   /\ ChunkBytes(Head(cx.ops).chunks) = Unescape(hist.body)
                   /\ ChunkBytes(Head(cx.ops).chunks) = Lit(c0, p0)
                   /\ cx.stack = Tail(c0.stack)
            /\ ((p0.type = WIKRT_PARSE_TXT_LF) /\ (cp \notin {32, 126})) => cx.err
            /\ (p0.type \in {WIKRT_PARSE_TXT, WIKRT_PARSE_TXT_LF}) =>
                   (cx.ops = c0.ops) \/ (cp = 126)

\* C26 witness: a literal holding an escaped line feed has been ended by
\* LF '~'.
C26_Witness ==
    /\ res.op = "char"
    /\ res.p0.type = WIKRT_PARSE_TXT_LF
    /\ res.cp = 126
    /\ regs.type = WIKRT_PARSE_OP
    /\ cx.ops # <<>>
    /\ Head(cx.ops).k = "text"
    /\ \E i \in 1..Len(ChunkBytes(Head(cx.ops).chunks)) : ChunkBytes(Head(cx.ops).chunks)[i] = 10

\* a token as specified: 1..63 bytes of UTF-8 with no '{', no '}', no
\* control character (LF included) and no replacement character
TokenAsSpecified(s) ==
    /\ Len(s) \in 1..63
    /\ \A i \in 1..Len(s) :
           IF (s[i] >= 128) /\ (s[i] <= 191) THEN i > 1
           ELSE \E u \in {utf8_step(SubSeq(s, i, Len(s)))} :
                    u.ok /\ (u.cp \notin ((0..31) \cup {127, 123, 125, 65533}))

\* C27: a token is accepted, by valid_token and by the parser for the text
\* between '{' and '}', exactly when it is 1..63 bytes of UTF-8 with no '{',
\* no '}', no control character (LF included) and no replacement character;
\* the empty token and a token of 64 bytes or more are rejected.
C27_TokenAccepted ==
    /\ (res.op = "valid_token") =>
           /\ res.ok = TokenAsSpecified(hist.tok)
           /\ res.parsed = TokenAsSpecified(hist.tok)
           /\ (hist.tok \in TestTokens) => (res.ok = (hist.tok \in TestAccept))
           /\ ((hist.tok = <<>>) \/ (Len(hist.tok) >= 64)) => (~res.ok /\ ~res.parsed)
    /\ ((res.op = "char") /\ (res.p0.type = WIKRT_PARSE_TOK)) =>
           IF res.cp = 125
           THEN /\ cx.err = ~(res.p0.bytect \in 1..63)
                /\ ~cx.err => /\ regs.type = WIKRT_PARSE_OP
                              /\ cx.ops = <<[k |-> "tok", bytes |-> res.p0.buff]>> \o res.cx0.ops
           ELSE /\ cx.err = \/ res.cp \in ((0..31) \cup {127, 123, 65533})
                            \/ res.p0.bytect + Len(utf8_writecp(res.cp)) > 63
                /\ ~cx.err => /\ regs.type = WIKRT_PARSE_TOK
                              /\ regs.buff = res.p0.buff \o utf8_writecp(res.cp)
                              /\ regs.bytect = Len(regs.buff)

\* C27 witness: the token of 21 three-byte characters (63 bytes) has been
\* parsed and accepted by valid_token.
C27_Witness ==
    (res.op = "valid_token") /\ (hist.tok = Arrows21) /\ res.ok /\ res.parsed

----------------------------------------------------------------------------
(* Constructors in a context that is nearly full.                          *)

MaxFull == 3                 \* most constructor calls in one context

\* the context of b with all free space but hole cells taken by one block;
\* with hole = 3 two cells that do not touch are left free
FillBut(c, hole) ==
    The({ IF hole = 3
          THEN The({ The({ wikrt_free(f.cx, WIKRT_CELLSIZE, x.addr) :
                           f \in {wikrt_alloc(x.cx, free - (2 * WIKRT_CELLSIZE))} }) :
                     x \in {wikrt_alloc(c, WIKRT_CELLSIZE)} })
          ELSE wikrt_alloc(c, free - (hole * WIKRT_CELLSIZE)).cx :
          free \in {(WIKRT_CELLSIZE * NCells) - (c.ba - c.bf)} })

InitFull ==
    \E k \in BaseKinds, hole \in 0..3 :
        \E b \in {BaseValue(k)} :
            /\ cx = FillBut(b.cx, hole)
            /\ regs = <<b.v, wikrt_i2v(4)>>
            /\ res = NoRes
            /\ hist = [n |-> 0, hole |-> hole]

FullResult(op, r, out) ==
    /\ cx' = r.cx
    /\ regs' = IF r.err = WIKRT_OK THEN out ELSE regs
    /\ res' = [op |-> op, err |-> r.err, regs0 |-> regs, cx0 |-> cx]
    /\ hist' = [hist EXCEPT !.n = @ + 1]

FullProd ==
    /\ hist.n < MaxFull
    /\ Len(regs) >= 2
    /\ \E r \in {_wikrt_alloc_prod(cx, regs[1], regs[2])} :
           FullResult("prod", r, <<r.v>> \o Tail(Tail(regs)))

FullSum(inRight) ==
    /\ hist.n < MaxFull
    /\ Len(regs) >= 1
    /\ \E r \in {_wikrt_alloc_sum(cx, inRight, regs[1])} :
           FullResult("wrap_sum", r, <<r.v>> \o Tail(regs))

FullSeal(tok) ==
    /\ hist.n < MaxFull
    /\ Len(regs) >= 1
    /\ \E r \in {_wikrt_alloc_seal(cx, tok, regs[1], FALSE)} :
           FullResult("wrap_seal", r, <<r.v>> \o Tail(regs))

FullMedint(d2) ==
    /\ hist.n < MaxFull
    /\ \E r \in {wikrt_alloc_medint(cx, TRUE, 73741824, 1, d2)} :
           FullResult("medint", r, <<r.v>> \o regs)

\* the caller drops the value it holds first; the drop may follow the last
\* constructor call
FullDrop(bDropRel) ==
    /\ hist.n <= MaxFull
    /\ Len(regs) >= 1
    /\ \E r \in {_wikrt_drop(cx, regs[1], bDropRel)} :
           FullResult("drop", r, Tail(regs))

NextFull ==
    \/ FullProd
    \/ \E inRight \in BOOLEAN : FullSum(inRight)
    \/ \E tok \in {Tok_m, Tok_foobar} : FullSeal(tok)
    \/ \E d2 \in {0, 1} : FullMedint(d2)
    \/ \E bDropRel \in BOOLEAN : FullDrop(bDropRel)

SpecFull == InitFull /\ [][NextFull]_vars

\* C28: when a constructor that allocates once (product, sum wrap, seal
\* wrap, bignum intro) fails with CXFULL, it has allocated nothing net, has
\* not modified or freed any of its input values, and the live byte count
\* is what it was before the call.
C28_FailedConstructor ==
    ((res.op \in {"prod", "wrap_sum", "wrap_seal", "medint"}) /\ (res.err = WIKRT_CXFULL)) =>
        /\ cx.ba - cx.bf = res.cx0.ba - res.cx0.bf
        /\ cx.ba = res.cx0.ba
        /\ cx.mem = res.cx0.mem
        /\ \A a \in 0..(ArenaEnd - 1) : IsFree(cx, a) = IsFree(res.cx0, a)
        /\ regs = res.regs0
        /\ \A i \in 1..Len(regs) :
               /\ Decode(cx, regs[i], DecodeFuel) = Decode(res.cx0, regs[i], DecodeFuel)
               /\ Decode(cx, regs[i], DecodeFuel) # <<"junk">>

\* C28 witness: a seal with a long token has failed with CXFULL on a sum
\* that was wrapped before, with two free cells that do not touch.
C28_Witness ==
    /\ res.op = "wrap_seal"
    /\ res.err = WIKRT_CXFULL
    /\ hist.hole = 3
    /\ hist.n >= 2
    /\ cx.ba - cx.bf = (WIKRT_CELLSIZE * NCells) - (2 * WIKRT_CELLSIZE)

----------------------------------------------------------------------------
(* Chains of deep-sum cells under wrap_sum, unwrap_sum and copy.           *)

MaxChain == 14               \* most directions around one value
MaxUnwraps == 2              \* most unwrap_sum calls
MaxCopies == 1               \* most copies

\* the directions the wraps take, in turn
ChainPatterns == {<<TRUE>>, <<FALSE, TRUE>>}

\* unit, the integer 4 and R 4
ChainKinds == {1, 2, 6}

InitChain ==
    \E k \in ChainKinds, pat \in ChainPatterns :
        \E b \in {BaseValue(k)} :
            /\ cx = b.cx
            /\ regs = <<b.v>>
            /\ res = NoRes
            /\ hist = [k |-> k, pat |-> pat, a0 |-> Decode(b.cx, b.v, DecodeFuel),
                       dirs |-> <<>>, wraps |-> 0, unwraps |-> 0, copies |-> 0]

ChainWrap ==
    /\ Len(hist.dirs) < MaxChain
    /\ \E inRight \in {hist.pat[(hist.wraps % Len(hist.pat)) + 1]} :
       \E r \in {_wikrt_alloc_sum(cx, inRight, regs[1])} :
           /\ cx' = r.cx
           /\ regs' = IF r.err = WIKRT_OK THEN <<r.v>> \o Tail(regs) ELSE regs
           /\ res' = [op |-> "wrap_sum", err |-> r.err]
           /\ hist' = IF r.err = WIKRT_OK
                      THEN [hist EXCEPT !.dirs = <<inRight>> \o @, !.wraps = @ + 1]
                      ELSE hist

ChainUnwrap ==
    /\ hist.unwraps < MaxUnwraps
    /\ hist.dirs # <<>>
    /\ \E r \in {_wikrt_split_sum(cx, regs[1])} :
           /\ cx' = r.cx
           /\ regs' = IF r.err = WIKRT_OK THEN <<r.v>> \o Tail(regs) ELSE regs
           /\ res' = [op |-> "unwrap_sum", err |-> r.err]
           /\ hist' = IF r.err = WIKRT_OK
                      THEN [hist EXCEPT !.dirs = Tail(@), !.unwraps = @ + 1]
                      ELSE hist

ChainCopy ==
    /\ hist.copies < MaxCopies
    /\ \E r \in {_wikrt_copy(cx, regs[1], FALSE)} :
           /\ cx' = r.cx
           /\ regs' = IF r.err = WIKRT_OK THEN <<r.v>> \o regs ELSE regs
           /\ res' = [op |-> "copy", err |-> r.err]
           /\ hist' = [hist EXCEPT !.copies = @ + 1]

NextChain == ChainWrap \/ ChainUnwrap \/ ChainCopy

SpecChain == InitChain /\ [][NextChain]_vars

\* the numbers of directions of the deep-sum cells around v, outermost first
RECURSIVE ChainCounts(_, _, _)
ChainCounts(c, v, fuel) ==
    IF (fuel = 0) \/ ~IsDeepSum(c, v) THEN <<>>
    ELSE <<DeepDirs(c, v)>> \o ChainCounts(c, Rd(c, wikrt_vaddr(v), 1), fuel - 1)

\* C29: after any sequence of wrap_sum, unwrap_sum and copy, in every
\* chain of deep-sum cells only the outermost cell may hold fewer than
\* twelve directions and every cell holds at least one; unit wrapped in 14
\* directions has taken exactly two deep-sum cells.
C29_DeepSumChain ==
    /\ \A i \in 1..Len(regs) : \A ch \in {ChainCounts(cx, regs[i], NCells)} :
           \A j \in 1..Len(ch) : (ch[j] >= 1) /\ (ch[j] <= 12) /\ ((j > 1) => (ch[j] = 12))
    /\ ((hist.k = 1) /\ (Len(hist.dirs) = 14) /\ (hist.unwraps = 0) /\ (hist.copies = 0)) =>
           /\ Len(ChainCounts(cx, regs[1], NCells)) = 2
           /\ cx.ba = 2 * WIKRT_CELLSIZE
           /\ cx.bf = 0
    /\ (res.err = WIKRT_OK) =>
           (Decode(cx, regs[1], DecodeFuel) = Wrapped(hist.dirs, hist.a0))

\* C29 witness: unit has been wrapped in 14 directions.
C29_Witness ==
    /\ hist.k = 1
    /\ Len(hist.dirs) = 14
    /\ hist.unwraps = 0
    /\ hist.copies = 0
    /\ res.op = "wrap_sum"
    /\ ChainCounts(cx, regs[1], NCells) = <<1, 12>>

----------------------------------------------------------------------------
(* Opvals in copy and drop (checked in SpecCopy)                            *)

\* the tree holds an affine block
RECURSIVE AffInside(_)
AffInside(t) ==
    CASE t[1] = "pair" -> AffInside(t[2]) \/ AffInside(t[3])
      [] t[1] \in {"sum", "seal", "opval"} -> AffInside(t[3])
      [] t[1] = "block" -> wikrt_block_aff(t[2]) \/ AffInside(t[3])
      [] OTHER -> FALSE

\* C30: in a copy with bCopyAff false an opval with the lazy bit is copied
\* as one cell and its inner value is copied with the affine check in force
\* (an affine block inside gives TYPE_ERROR); the inner value of an opval
\* without the lazy bit is copied with the check suppressed (an affine
\* block inside is copied); drop does the same for relevant blocks with
\* bDropRel.
C30_OpvalLazy ==
    /\ ((res.op = "copy") /\ ~res.bCopyAff) =>
           \A t0 \in {Decode(hist.cx0, regs[1], DecodeFuel)} :
               (t0[1] = "opval") =>
                   IF OpvalLazy(t0[2])
                   THEN /\ AffUnshielded(t0[3]) => (res.err = WIKRT_TYPE_ERROR)
                        /\ cx.ba >= hist.cx0.ba + WIKRT_CELLSIZE
                        /\ wikrt_vtag(res.dst) = WIKRT_O
                        /\ IsFree(hist.cx0, wikrt_vaddr(res.dst))
                        /\ Rd(cx, wikrt_vaddr(res.dst), 0) = t0[2]
                   ELSE AffInside(t0[3]) =>
                            /\ res.err = WIKRT_OK
                            /\ Decode(cx, regs[2], DecodeFuel) = t0
    /\ ((res.op = "drop") /\ ~res.bDropRel) =>
           \A t0 \in {Decode(hist.cx0, res.v, DecodeFuel)} :
               (t0[1] = "opval") =>
                   IF OpvalLazy(t0[2])
                   THEN /\ RelUnshielded(t0[3]) => (res.err = WIKRT_TYPE_ERROR)
                        /\ IsFree(cx, wikrt_vaddr(res.v))
                   ELSE /\ res.err = WIKRT_OK
                        /\ \A w \in Reach(hist.cx0, res.v, DecodeFuel) : IsFree(cx, 4 * w)

\* C31: once a copy with the affine check in force (bCopyAff false) has
\* visited an opval whose lazy bit is set, the lazy bit of that opval is
\* clear, in the original and in the copy.
C31_LazyCleared ==
    ((res.op = "copy") /\ ~res.bCopyAff /\ (res.err = WIKRT_OK)) =>
        \A t0 \in {Decode(hist.cx0, regs[1], DecodeFuel)} :
            ((t0[1] = "opval") /\ OpvalLazy(t0[2])) =>
                /\ ~OpvalLazy(Rd(cx, wikrt_vaddr(regs[1]), 0))
                /\ ~OpvalLazy(Rd(cx, wikrt_vaddr(regs[2]), 0))

----------------------------------------------------------------------------
(* Drop of plain data (checked in SpecFull).                               *)

\* the tree is built from units, integers, products, sums and sealed values
RECURSIVE DataOnly(_)
DataOnly(t) ==
    CASE t[1] \in {"unit", "int", "big"} -> TRUE
      [] t[1] = "pair" -> DataOnly(t[2]) /\ DataOnly(t[3])
      [] t[1] \in {"sum", "seal"} -> DataOnly(t[3])
      [] OTHER -> FALSE

\* the free blocks of both lists, as <<address, size>>
FreeBlocks(c) == {c.fl[i] : i \in 1..Len(c.fl)} \cup {c.shm[i] : i \in 1..Len(c.shm)}

\* C32: a drop of a value built from units, integers, products, sums and
\* sealed values returns OK, whatever bDropRel and however full the arena;
\* it allocates nothing (ct_bytes_alloc is unchanged); every word reachable
\* from the value is free afterwards and the bytes freed are the bytes of
\* those words, no free block overlapping another (each cell freed once);
\* what was free stays free and what was live elsewhere stays live; and the
\* only words written are words of the dropped value (its pair cells hold
\* the list of pending work).
C32_DropData ==
    ((res.op = "drop") /\ DataOnly(Decode(res.cx0, res.regs0[1], DecodeFuel))) =>
        \A R \in {Reach(res.cx0, res.regs0[1], DecodeFuel)} :
            /\ res.err = WIKRT_OK
            /\ cx.ba = res.cx0.ba
            /\ \A w \in R : IsFree(cx, 4 * w) /\ ~IsFree(res.cx0, 4 * w)
            /\ cx.bf - res.cx0.bf = 4 * Cardinality(R)
            /\ \A b1, b2 \in FreeBlocks(cx) :
                   (b1 # b2) => ((b1[1] + b1[2] <= b2[1]) \/ (b2[1] + b2[2] <= b1[1]))
            /\ \A w \in (2..(MemWords - 1)) \ R :
                   /\ IsFree(cx, 4 * w) = IsFree(res.cx0, 4 * w)
                   /\ cx.mem[w] = res.cx0.mem[w]

\* C32 witness: in an arena with no free byte a pair whose first component is
\* itself a cell value has been dropped, and the drop returned OK.
C32_Witness ==
    /\ res.op = "drop"
    /\ res.err = WIKRT_OK
    /\ res.cx0.ba - res.cx0.bf = WIKRT_CELLSIZE * NCells
    /\ \E t \in {Decode(res.cx0, res.regs0[1], DecodeFuel)} :
           (t[1] = "pair") /\ (t[2][1] \in {"pair", "sum", "seal", "big"}) /\ DataOnly(t)

----------------------------------------------------------------------------
(* Failure of wikrt_alloc (checked in SpecFull).                           *)

\* the caller's local list merged into the shared list, and coalesced
FreeUnion(c) == wikrt_fl_coalesce(wikrt_fl_merge(c.fl, c.shm))

----------------------------------------------------------------------------
(* Conservation of the arena's bytes (checked in SpecShm).                 *)

\* the bytes of the shared list, of every local list and of every block held
TotalBytes == FlBytes(cx.shm) + CxBytes(NCx)

\* the steps of wikrt_acquire_shared_memory
ShmSteps == {"lock", "shm1 ok", "shm1 failed", "merge", "shm2 ok", "shm2 failed",
             "takeall", "unlock"}

\* the blocks of a list and of the shared list of group c, sorted by address
\* with touching blocks taken as one
FreeRuns(c, fl) == MergeRuns(SortedBlocks({(fl \o c.shm)[k] : k \in 1..Len(fl \o c.shm)}))

C34_Step ==
    /\ TotalBytes = ArenaBytes
    /\ TotalBytes' = ArenaBytes
    /\ (res'.op \in ShmSteps) =>
          \A i \in {res'.by} :
              /\ FreeRuns(cx', cx'.fl[i]) = FreeRuns(cx, cx.fl[i])
              /\ FlBytes(cx'.shm) + FlBytes(cx'.fl[i]) = FlBytes(cx.shm) + FlBytes(cx.fl[i])
              /\ \A j \in Cxs : regs'[j].held = regs[j].held
              /\ \A j \in Cxs \ {i} : cx'.fl[j] = cx.fl[j]

\* C34: in every state the bytes of the shared free list, of every
\* context's local free list and of the live allocations add up to the
\* arena's size; and every step of wikrt_acquire_shared_memory (the two
\* attempts on the shared list, merge with coalesce and list reset,
\* take-all with list reset) leaves the free bytes of the shared list and
\* the caller's list together covering the same addresses, each once, and
\* leaves every block held and every other local list as it was.
C34_BytesConserved == [][C34_Step]_vars

\* C34 witness: a take-all has moved a shared list that held blocks to the
\* caller's local list while the other context holds a block and has free
\* blocks of its own.
C34_Witness ==
    /\ res.op = "takeall"
    /\ cx.fl[res.by] # <<>>
    /\ \E j \in Cxs \ {res.by} : (regs[j].held # {}) /\ (cx.fl[j] # <<>>)

----------------------------------------------------------------------------
(* Bracket depth and operator order of the parser (checked in SpecParse).  *)

\* the source text of the bytes of a literal: a line feed is written LF SP
RECURSIVE Escape(_)
Escape(s) ==
    IF s = <<>> THEN <<>>
    ELSE (IF Head(s) = 10 THEN <<10, 32>> ELSE <<Head(s)>>) \o Escape(Tail(s))

\* the source text of a list of operations that is in source order
RECURSIVE Flat(_)
Flat(ops) ==
    IF ops = <<>> THEN <<>>
    ELSE The({ (CASE o.k = "op" -> <<o.op>>
                  [] o.k = "tok" -> <<123>> \o o.bytes \o <<125>>
                  [] o.k = "text" -> <<34>> \o Escape(ChunkBytes(o.chunks)) \o <<10, 126>>
                  [] o.k = "block" -> <<91>> \o Flat(o.ops) \o <<93>>)
               \o Flat(Tail(ops)) : o \in {Head(ops)} })

\* C35: while no error is set the depth is the number of '[' read minus the
\* number of ']' read as operators, and as many lists are suspended as the
\* depth and the open literal take; a ']' read at depth 0 sets the error;
\* wikrt_fini_parse leaves the parse without error exactly when no error
\* was set and the parser is in operator state at depth 0 (so not inside a
\* token, not inside a literal, not with a '[' open); and on success the
\* result is one block whose operations, nested blocks included, written
\* out in list order give back the input byte for byte.
C35_DepthAndOrder ==
    /\ ~cx.err => /\ regs.depth = hist.opens - hist.closes
                  /\ hist.done \/
                         (Len(cx.stack) = regs.depth
                            + (IF regs.type \in {WIKRT_PARSE_TXT, WIKRT_PARSE_TXT_LF}
                               THEN 1 ELSE 0))
    /\ ((res.op = "char") /\ (res.p0.type = WIKRT_PARSE_OP) /\ (res.cp = 93)
            /\ (res.p0.depth = 0)) => cx.err
    /\ (res.op = "fini") =>
           (~cx.err <=> (~res.cx0.err /\ (res.p0.type = WIKRT_PARSE_OP)
                           /\ (hist.opens = hist.closes)))
    /\ (hist.done /\ ~cx.err) =>
           /\ Len(cx.ops) = 1
           /\ cx.ops[1].k = "block"
           /\ Flat(cx.ops[1].ops) = hist.inp

\* C35 witness: the input [v ]v has been parsed without error: a nested
\* block of two different operators, closed, and an operator after it.
C35_Witness ==
    hist.done /\ ~cx.err /\ (hist.inp = <<91, 118, 32, 93, 118>>)

----------------------------------------------------------------------------
(* Specification SpecBuf: the parser's buffer near its limits.  The parse   *)
(* starts where a long literal or a long token has brought it, and goes on  *)
(* one character per step, after errors as well (wikrt_step_parse does not  *)
(* look at the error); each step may find that no memory can be reserved.   *)

MaxBufChars == 3             \* most characters read after the prefix
BufSlack == 4                \* the prefixes end up to this many bytes below the limit

\* v, e acute (2 bytes), a right arrow (3 bytes), U+1F600 (4 bytes), '"',
\* LF, SP, '~', TAB, '{', '}'
BufChars ==
    {<<118>>, <<195, 169>>, <<226, 134, 146>>, <<240, 159, 152, 128>>, <<34>>,
     <<10>>, <<32>>, <<126>>, <<9>>, <<123>>, <<125>>}

\* the parser after '"' and n times v, and after '{' and n times v
InitBufWith(type, n) ==
    /\ cx = [err |-> FALSE, ops |-> <<>>,
             stack |-> IF type = WIKRT_PARSE_TXT THEN <<<<>>>> ELSE <<>>,
             texts |-> <<>>, full |-> FALSE]
    /\ regs = [type |-> type, depth |-> 0, bytect |-> n, charct |-> n,
               buff |-> [k \in 1..n |-> 118]]
    /\ res = [op |-> "none"]
    /\ hist = [n |-> 0]

InitBuf ==
    \/ \E n \in ((WIKRT_PARSE_BUFFSZ - 4) - BufSlack)..((WIKRT_PARSE_BUFFSZ - 4) - 1) :
           InitBufWith(WIKRT_PARSE_TXT, n)
    \/ \E n \in (WIKRT_TOK_BUFFSZ - BufSlack)..(WIKRT_TOK_BUFFSZ - 1) :
           InitBufWith(WIKRT_PARSE_TOK, n)

\* one round of the loop of wikrt_step_parse; full: no memory can be
\* reserved in this round
BufStep(ch, full) ==
    /\ hist.n < MaxBufChars
    /\ \E u \in {utf8_step(ch)} :
       \E r \in {wikrt_step_parse_char([cx EXCEPT !.full = full], regs, u.cp)} :
           /\ cx' = r.cx
           /\ regs' = r.p
           /\ res' = [op |-> "char", cp |-> u.cp, p0 |-> [regs EXCEPT !.buff = <<>>],
                      full |-> full, texts0 |-> Len(cx.texts)]
           /\ hist' = [n |-> hist.n + 1]

NextBuf == \E ch \in BufChars, full \in BOOLEAN : BufStep(ch, full)

SpecBuf == InitBuf /\ [][NextBuf]_vars

\* the counters with which the step that led here called
\* wikrt_flush_parse_text (bytect 0 when it did not): from
\* wikrt_parser_write_char once the character is written, and at the '~'
\* that ends a literal
FlushedWith ==
    IF res.op # "char" THEN [bytect |-> 0, charct |-> 0]
    ELSE The({ IF (p0.type = WIKRT_PARSE_TXT_LF) /\ (res.cp = 126) THEN p0
               ELSE IF \/ (p0.type = WIKRT_PARSE_TXT_LF) /\ (res.cp = 32)
                       \/ (p0.type = WIKRT_PARSE_TXT) /\ (res.cp # 10)
                              /\ wikrt_text_char(res.cp)
               THEN (IF p0.bytect + w >= WIKRT_PARSE_BUFFSZ - 4
                     THEN [bytect |-> p0.bytect + w, charct |-> p0.charct + 1]
                     ELSE [bytect |-> 0, charct |-> 0])
               ELSE [bytect |-> 0, charct |-> 0] :
               p0 \in {res.p0},
               w \in {IF res.p0.type = WIKRT_PARSE_TXT_LF THEN 1
                      ELSE utf8_writecp_size(res.cp)} })

\* C36: the buffer holds bytect bytes, at most WIKRT_PARSE_BUFFSZ in a
\* literal (also at the moment a character has been written and the flush
\* has not yet run) and fewer than WIKRT_TOK_BUFFSZ in a token; whenever
\* wikrt_flush_parse_text is called with a buffer that is not empty its
\* sanity check holds; and after every flush both counters are zero,
\* whether or not memory could be reserved (only then is a chunk added to
\* the literal).
C36_BufferBounds ==
    /\ regs.bytect = Len(regs.buff)
    /\ (regs.type \in {WIKRT_PARSE_TXT, WIKRT_PARSE_TXT_LF}) =>
           /\ regs.bytect <= WIKRT_PARSE_BUFFSZ
           /\ regs.charct <= regs.bytect
           /\ regs.bytect <= 4 * regs.charct
    /\ (regs.type = WIKRT_PARSE_TOK) => (regs.bytect < WIKRT_TOK_BUFFSZ)
    /\ \A f \in {FlushedWith} :
           (f.bytect > 0) =>
               /\ f.bytect <= WIKRT_PARSE_BUFFSZ
               /\ FlushSane(f)
               /\ regs.bytect = 0
               /\ regs.charct = 0
               /\ Len(cx.texts) = (IF res.full THEN res.texts0 ELSE res.texts0 + 1)
                      \/ (res.cp = 126)

\* C36 witness: a character of four bytes has taken the buffer of a literal
\* to WIKRT_PARSE_BUFFSZ - 1 bytes, and the flush that followed could not
\* reserve memory.
C36_Witness ==
    /\ FlushedWith.bytect = WIKRT_PARSE_BUFFSZ - 1
    /\ res.full
    /\ cx.err

----------------------------------------------------------------------------
(* The register table (wikrt_reg.c): open addressing with linear probing.  *)
(* A table is [size, fill, ids, data]; slot ix of the source is element    *)
(* ix + 1 of ids and data.  An operation ends "OK", or the process ends:   *)
(* "ABORT" when an assertion fails, "HANG" when a probe never ends, "UB"   *)
(* when the index is taken modulo a size of zero.                          *)

NRegs == 4                   \* register ids 1..NRegs
MaxRegOps == 5               \* most calls that change the table
MaxAmt == 3                  \* most registers one prealloc asks for
MaxNewSize == 3              \* largest size a caller's own resize asks for

RegIds == 1..NRegs
RegVals == {1, 2}

\* wikrt_rtb new_rtb = { 0 } with arrays of new_size zeroed slots
NewRtb(new_size) ==
    [size |-> new_size, fill |-> 0, ids |-> [k \in 1..new_size |-> 0],
     data |-> [k \in 1..new_size |-> 0]]

rtb_index(t, r) ==
    IF t.size = 0 THEN [st |-> "UB", ix |-> 0]
    ELSE The({ The({ IF K = {} THEN [st |-> "HANG", ix |-> 0]
                     ELSE [st |-> "OK",
                           ix |-> (h + (CHOOSE k \in K : \A j \in K : k <= j)) % t.size] :
                     K \in {{k \in 0..(t.size - 1) :
                               \/ t.ids[((h + k) % t.size) + 1] = r
                               \/ t.data[((h + k) % t.size) + 1] = 0}} }) :
               h \in {(r * 4567) % t.size} })

\* the do-while loop of rtb_clear from the slot after ix
RECURSIVE ClearShift(_, _, _)
ClearShift(t, ix0, fuel) ==
    IF fuel = 0 THEN [st |-> "HANG", t |-> t]
    ELSE The({ IF t.data[ix + 1] = 0 THEN [st |-> "OK", t |-> t]
               ELSE The({ IF i.st # "OK" THEN [st |-> i.st, t |-> t]
                          ELSE IF i.ix # ix
                          THEN ClearShift([t EXCEPT !.ids[i.ix + 1] = t.ids[ix + 1],
                                                    !.data[i.ix + 1] = t.data[ix + 1],
                                                    !.data[ix + 1] = 0], ix, fuel - 1)
                          ELSE ClearShift(t, ix, fuel - 1) :
                          i \in {rtb_index(t, t.ids[ix + 1])} }) :
               ix \in {(ix0 + 1) % t.size} })

rtb_clear(t, r) ==
    IF t.size = 0 THEN [st |-> "ABORT", t |-> t]
    ELSE The({ IF i.st # "OK" THEN [st |-> i.st, t |-> t]
               ELSE IF t.data[i.ix + 1] = 0 THEN [st |-> "OK", t |-> t]
               ELSE ClearShift([t EXCEPT !.data[i.ix + 1] = 0, !.fill = @ - 1], i.ix,
                               (3 * t.size) + 3) :
               i \in {rtb_index(t, r)} })

rtb_write(t, r, v) ==
    IF ~(t.size > t.fill) THEN [st |-> "ABORT", t |-> t]
    ELSE The({ IF i.st # "OK" THEN [st |-> i.st, t |-> t]
               ELSE IF t.data[i.ix + 1] = 0
               THEN [st |-> "OK", t |-> [t EXCEPT !.ids[i.ix + 1] = r, !.fill = @ + 1,
                                                  !.data[i.ix + 1] = v]]
               ELSE [st |-> "OK", t |-> [t EXCEPT !.data[i.ix + 1] = v]] :
               i \in {rtb_index(t, r)} })

\* the copy loop of wikrt_rtb_resize from slot ix of the old table
RECURSIVE ResizeCopy(_, _, _)
ResizeCopy(old, new, ix) ==
    IF ~(ix < old.size) THEN [st |-> "OK", t |-> new]
    ELSE IF old.data[ix + 1] = 0 THEN ResizeCopy(old, new, ix + 1)
    ELSE The({ IF w.st # "OK" THEN w ELSE ResizeCopy(old, w.t, ix + 1) :
               w \in {rtb_write(new, old.ids[ix + 1], old.data[ix + 1])} })

\* mem: wikrt_api_mem_prealloc finds the bytes of the two arrays
wikrt_rtb_resize(t, new_size, mem) ==
    IF (t.fill \div 2) > (new_size \div 3) THEN [ok |-> FALSE, st |-> "OK", t |-> t]
    ELSE IF ~mem THEN [ok |-> FALSE, st |-> "OK", t |-> t]
    ELSE The({ IF c.st # "OK" THEN [ok |-> FALSE, st |-> c.st, t |-> t]
               ELSE IF t.fill # c.t.fill THEN [ok |-> FALSE, st |-> "ABORT", t |-> t]
               ELSE [ok |-> TRUE, st |-> "OK", t |-> c.t] :
               c \in {ResizeCopy(t, NewRtb(new_size), 0)} })

wikrt_rtb_prealloc(t, amt, mem) ==
    The({ IF ~((new_fill \div 2) > (t.size \div 3)) THEN [ok |-> TRUE, st |-> "OK", t |-> t]
          ELSE wikrt_rtb_resize(t, 1 + (2 * new_fill), mem) :
          new_fill \in {amt + t.fill} })

wikrt_reg_set(t, r, v) == IF v = 0 THEN rtb_clear(t, r) ELSE rtb_write(t, r, v)

wikrt_reg_get(t, r) ==
    The({ [st |-> i.st, v |-> IF i.st = "OK" THEN t.data[i.ix + 1] ELSE 0] :
          i \in {rtb_index(t, r)} })

\* the composition (v0, v) of wikrt_reg_write, a cell of its own: the
\* writes so far as digits 1 and 2 in base 3
Comp(v0, v) == (3 * v0) + v

wikrt_reg_write(t, r, v) ==
    IF v = 0 THEN [st |-> "OK", t |-> t]
    ELSE The({ IF g.st # "OK" THEN [st |-> g.st, t |-> t]
               ELSE IF g.v = 0 THEN wikrt_reg_set(t, r, v)
               ELSE wikrt_reg_set(t, r, Comp(g.v, v)) :
               g \in {wikrt_reg_get(t, r)} })

(* Specification SpecReg: a context whose table was made by               *)
(* wikrt_rtb_resize when the context was created.  The caller preallocs,   *)
(* sets, writes, clears and reads registers and resizes the table; it sets *)
(* a register that is unset only when a prealloc that returned true has    *)
(* left room for it.  hist.m is the map the registers stand for,           *)
(* hist.room the room left by the last prealloc.                           *)

InitSizes == {2, 4, 5}

InitReg ==
    \E n \in InitSizes :
        /\ cx = wikrt_rtb_resize(NewRtb(0), n, TRUE).t
        /\ regs = <<>>
        /\ res = [op |-> "none", st |-> "OK"]
        /\ hist = [m |-> [r \in RegIds |-> 0], room |-> 0, n |-> 0, guarded |-> FALSE]

\* the process has not ended
Running == res.st = "OK"

RegPrealloc(amt, mem) ==
    /\ Running
    /\ hist.n < MaxRegOps
    /\ \E p \in {wikrt_rtb_prealloc(cx, amt, mem)} :
           /\ cx' = p.t
           /\ res' = [op |-> "prealloc", st |-> p.st, ok |-> p.ok, amt |-> amt,
                      resized |-> p.t.size # cx.size]
           /\ hist' = [hist EXCEPT !.n = @ + 1, !.room = IF p.ok THEN amt ELSE 0,
                                   !.guarded = p.ok]
    /\ UNCHANGED regs

RegSet(r, v) ==
    /\ Running
    /\ hist.n < MaxRegOps
    /\ (v = 0) \/ (hist.m[r] # 0) \/ (hist.room > 0)
    /\ \E w \in {wikrt_reg_set(cx, r, v)} :
           /\ cx' = w.t
           /\ res' = [op |-> "set", st |-> w.st, r |-> r, v |-> v]
           /\ hist' = [hist EXCEPT !.n = @ + 1, !.m[r] = v,
                                   !.room = IF (v # 0) /\ (hist.m[r] = 0) THEN @ - 1 ELSE @]
    /\ UNCHANGED regs

RegWrite(r, v) ==
    /\ Running
    /\ hist.n < MaxRegOps
    /\ (hist.m[r] # 0) \/ (hist.room > 0)
    /\ \E w \in {wikrt_reg_write(cx, r, v)} :
           /\ cx' = w.t
           /\ res' = [op |-> "write", st |-> w.st, r |-> r, v |-> v]
           /\ hist' = [hist EXCEPT !.n = @ + 1, !.m[r] = Comp(@, v),
                                   !.room = IF hist.m[r] = 0 THEN @ - 1 ELSE @]
    /\ UNCHANGED regs

RegGet(r) ==
    /\ Running
    /\ \E g \in {wikrt_reg_get(cx, r)} :
           res' = [op |-> "get", st |-> g.st, r |-> r, v |-> g.v]
    /\ UNCHANGED <<cx, regs, hist>>

RtbResize(new_size, mem) ==
    /\ Running
    /\ hist.n < MaxRegOps
    /\ \E z \in {wikrt_rtb_resize(cx, new_size, mem)} :
           /\ cx' = z.t
           /\ res' = [op |-> "resize", st |-> z.st, ok |-> z.ok, new_size |-> new_size,
                      t0 |-> cx]
           /\ hist' = [hist EXCEPT !.n = @ + 1,
                                   !.room = IF z.ok THEN 0 ELSE @,
                                   !.guarded = IF z.ok THEN FALSE ELSE @]
    /\ UNCHANGED regs

NextReg ==
    \/ \E amt \in 1..MaxAmt, mem \in BOOLEAN : RegPrealloc(amt, mem)
    \/ \E r \in RegIds, v \in RegVals \cup {0} : RegSet(r, v)
    \/ \E r \in RegIds, v \in RegVals : RegWrite(r, v)
    \/ \E r \in RegIds : RegGet(r)
    \/ \E new_size \in 0..MaxNewSize, mem \in BOOLEAN : RtbResize(new_size, mem)

SpecReg == InitReg /\ [][NextReg]_vars

\* C37: from a prealloc that returned true on, while the caller sets no
\* more unset registers than it asked room for, the table is at most
\* two-thirds full (3 * fill <= 2 * size) and not completely full; and a
\* prealloc that resized leaves a table that is less than half full once
\* the registers asked for are set.
C37_PreallocFill ==
    /\ hist.guarded => /\ 3 * cx.fill <= 2 * cx.size
                       /\ cx.fill < cx.size
    /\ ((res.op = "prealloc") /\ res.ok /\ res.resized) =>
           (2 * (cx.fill + res.amt) < cx.size)

\* C38: the table stands for the map hist.m (0: unset): no call aborts,
\* hangs or divides by zero; wikrt_reg_get of every register returns what
\* was last set for it, a composition after wikrt_reg_write, and 0 when it
\* was never set or was cleared last (so a set or a clear of one register
\* changes no other); and fill is the number of slots with data other than 0.
C38_MapRefinement ==
    /\ res.st = "OK"
    /\ \A r \in RegIds : \A g \in {wikrt_reg_get(cx, r)} :
           (g.st = "OK") /\ (g.v = hist.m[r])
    /\ (res.op = "get") => (res.v = hist.m[res.r])
    /\ cx.fill = Cardinality({k \in 1..cx.size : cx.data[k] # 0})

\* C39: a call of wikrt_rtb_resize ends without abort; when it returns true
\* the table has the new size, the fill it had, every register reads as
\* before, and at least one slot is empty; it returns false and leaves the
\* table as it was when fill / 2 > new_size / 3, and leaves it as it was
\* whenever it returns false.
C39_Resize ==
    (res.op = "resize") =>
        /\ res.st = "OK"
        /\ res.ok => /\ cx.size = res.new_size
                     /\ cx.fill = res.t0.fill
                     /\ \A r \in RegIds : \A g \in {wikrt_reg_get(cx, r)} :
                            (g.st = "OK") /\ (g.v = hist.m[r])
                     /\ cx.fill < cx.size
        /\ ((res.t0.fill \div 2) > (res.new_size \div 3)) => ~res.ok
        /\ ~res.ok => (cx = res.t0)

\* C40: in every state the table size is not zero, no call has failed the
\* assertion of rtb_write or run without end, and for every register id
\* the probe of rtb_index ends (at the id or at an empty slot) and the
\* back-shift loop of rtb_clear ends.
C40_LookupTerminates ==
    /\ cx.size # 0
    /\ res.st \notin {"ABORT", "HANG", "UB"}
    /\ \A r \in RegIds : rtb_index(cx, r).st = "OK"
    /\ \A r \in RegIds : rtb_clear(cx, r).st = "OK"

====
